---- MODULE Spec2Model ----
(***************************************************************************)
(* Log-structured key/value store "KvStore" (src/src/engine/kv_store).     *)
(*                                                                         *)
(* The engine handle (kv_store.rs) shares an index (Mutex<HashMap>), a log *)
(* (Mutex<Log>) and an atomic counter of obsolete records between its      *)
(* clones.  The log is one active file plus numbered passive files         *)
(* (log.rs).  Every method is split at the points where it acquires a      *)
(* mutex, so that the interleavings of threads working through cloned      *)
(* handles are the interleavings of the model.                             *)
(*                                                                         *)
(* Offsets are byte offsets: a record occupies the number of bytes of its  *)
(* JSON encoding.                                                          *)
(***************************************************************************)
EXTENDS Integers, Sequences, FiniteSets, TLC

\* ------------------------------------------------------------------ bounds

\* Operations (set/get/remove/clone/drop/open) started in one behaviour:
\* of several threads (MaxOps, and LongOps for the longer runs), of a single
\* thread (SeqOps).
MaxOps == 5
LongOps == 6
SeqOps == 5
\* Handles alive at the same time.
MaxHandles == 2
\* kv_store.rs:24 sets the threshold to 1024; the model scales it down so
\* that a short run crosses it.
RECORDS_LIMIT == 1
\* utils.rs:7 sets the chunk size to 100; scaled down likewise, to a size
\* that still makes files of several records and a last file that is not
\* full.
RECORDS_IN_COMPACTED == 2

\* Threads that may hold a handle (thread 1 opens the store).
Threads == {1, 2}

\* Every thread there is: the runs with three handles have a third one.
AllThreads == Threads \cup {3}
Keys == {"a", "b", "c"}

\* The keys that the runs of several threads write.
TwoKeys == {"a", "b"}
Values == {"1", "22"}
NoValue == "none"

\* Thread pools: worker threads of a queue pool and jobs handed to spawn.
NWorkers == 2
MaxJobs == 3
Workers == 1..NWorkers
Jobs == 1..MaxJobs
PoolKinds == {"queue", "naive", "rayon"}

\* WaitGroup handles: the one returned by new() and the clones made of it.
MaxClones == 4
Original == 0
WgHandles == 0..MaxClones

\* The threads that call wait() on the group (wait takes &self, so several
\* threads can be inside it at once).
Waiters == {1, 2}

\* Server: the two accept loops (Server::run over the queue pool, and run()
\* of the kvs-server binary, which serves each connection inline).
Servers == {"pool", "inline"}
Conns == Jobs

\* What incoming().next() yielded: a stream, WouldBlock or another error.
NoStream == 0
WouldBlock == -1
AcceptError == -2

\* enum Request, and bytes that do not decode as one.
Requests == {"Get", "Set", "Rm"}
Garbage == "garbage"

\* enum KvError as far as the methods of KvStore return it, with its
\* Display (the text after the colon is that of the cause).
KvErrors == {"KeyNotFound", "StorageFileError", "SerdeError", "UnexpectedCommand"}
Display(e) ==
    IF e = "KeyNotFound" THEN "Key not found"
    ELSE IF e = "StorageFileError" THEN "Storage File Error: io"
    ELSE IF e = "SerdeError" THEN "Serde Error: json"
    ELSE "Unexpected command"

\* Result<Option<String>> / Result<()> of the engine's methods.
EngineOk(v) == [status |-> "Ok", value |-> v, error |-> "none"]
EngineErr(e) == [status |-> "Err", value |-> NoValue, error |-> e]
NoOutcome == [status |-> "none", value |-> NoValue, error |-> "none"]

\* enum Response { Ok(Option<String>), Err(String) }
ResponseOk(v) == [tag |-> "Ok", body |-> v]
ResponseErr(msg) == [tag |-> "Err", body |-> msg]

NoConn == [state |-> "none", req |-> Garbage, broken |-> FALSE, job |-> 0,
           outcome |-> NoOutcome, ops |-> 0, resp |-> <<>>]

\* Client programs: the kvs-client binary and the functions of kmp.rs.
ClientBins == {"kvs-client", "kmp"}
NoResponse == [tag |-> "none", body |-> NoValue]
NoClient == [bin |-> "none", cmd |-> "none", key |-> NoValue, pc |-> "none",
             response |-> NoResponse, stdout |-> <<>>, stderr |-> <<>>, status |-> -1]

\* enum Message { New(Job), Shutdown }
NewMessage(j) == [tag |-> "New", job |-> j]
Shutdown == [tag |-> "Shutdown", job |-> 0]
NoMessage == [tag |-> "none", job |-> 0]

\* A closure not yet handed to spawn. runPanics: calling it panics;
\* dropPanics: destroying it uncalled panics (a captured value whose Drop
\* panics, as KvStore's does when compaction fails).
NoJob == [state |-> "unspawned", runs |-> 0, by |-> 0,
          runPanics |-> FALSE, dropPanics |-> FALSE]

\* ------------------------------------------------------------------ state

VARIABLES
    active,          \* records of log.active, in file order
    writer,          \* offset of the file behind Log.writer
    passive,         \* serial number -> records of <n>.passive
    last_serial_number,
    index,           \* key -> LogPointer
    unused_records,
    logLock,         \* holder of Mutex<Log> (0: free)
    indexLock,       \* holder of Mutex<Index> (0: free)
    poisoned,        \* mutexes whose holder panicked
    held,            \* thread -> number of handles it owns
    pc,              \* thread -> position in the method it runs
    local,           \* thread -> arguments and locals of that method
    result,          \* thread -> outcome of its last method, once it ended
    hist,            \* every record appended by set/remove, in log order
    mySet,           \* thread -> key -> place in hist of its last own set
    nops,
    flags,           \* observations about drops, reopens and compactions
    buffered,        \* records in the BufWriter of the active file, not yet written
    backups_dir,     \* thread -> KvStore.backups_dir of its handle
    backups,         \* the backup directories made so far: copies of the passive files
    kind,            \* which ThreadPool implementation was constructed
    owner,           \* the thread owning the pool: its position
    channel,         \* mpsc channel of the queue pool, oldest message first
    worker,          \* queue-pool worker -> its position and message in hand
    job,             \* job -> what has happened to the closure so far
    wg_counter,      \* WaitGroupImpl.counter
    alive,           \* the WaitGroup handles not yet dropped
    made,            \* number of clones of the group made so far
    waiter,          \* thread calling wait() -> its position and handle used
    interrupt,       \* the AtomicBool set by the SIGINT handler
    loop,            \* the thread in run(): position in the accept loop
    conn,            \* connection -> request sent, handling, responses written
    client,          \* one run of a client program
    dirEntries,      \* entries of a store directory about to be opened
    opened           \* what Log::open made of that directory

storeVars == <<active, writer, passive, last_serial_number, index, unused_records,
               logLock, indexLock, poisoned, held, pc, local, result,
               hist, mySet, nops, flags, buffered, backups_dir, backups>>

\* The part of the store most methods leave alone.
backupVars == <<buffered, backups_dir, backups>>

poolVars == <<kind, owner, channel, worker, job>>

\* Everything outside the store: no method of KvStore touches it.
wgVars == <<wg_counter, alive, made, waiter>>

srvVars == <<interrupt, loop, conn>>

cliVars == <<client>>

dirVars == <<dirEntries, opened>>

aroundStore == <<poolVars, wgVars, srvVars, cliVars, dirVars>>

vars == <<storeVars, aroundStore>>

\* ---------------------------------------------------------------- records

SetRec(k, v) == [op |-> "Set", key |-> k, value |-> v]
RemoveRec(k) == [op |-> "Remove", key |-> k, value |-> NoValue]

\* The beginning of a Set record, {"Set":{ , left in the file by a write
\* that failed after its first pieces: serde_json::to_writer hands the
\* record to the file piece by piece (set writes through writer.get_mut()).
TornRec == [op |-> "Torn", key |-> NoValue, value |-> NoValue]

\* A Remove record that the BufWriter has written in part: the bytes
\* {"Remove": are in the file (TornRemove), the bytes after them are still
\* in the buffer (RestRemove). A write that fails may stop after any byte;
\* the cut after the tag stands for all of them.
TornRemove(k) == [op |-> "TornRemove", key |-> k, value |-> NoValue]
RestRemove(k) == [op |-> "RestRemove", key |-> k, value |-> NoValue]

\* What does not decode as a record.
Undecodable(r) == r.op \in {"Torn", "TornRemove"}

StrLen(s) == IF s = "22" THEN 2 ELSE 1

\* serde_json: {"Set":{"key":"k","value":"v"}} and {"Remove":{"key":"k"}}
EncodedLen(r) ==
    IF r.op = "Set" THEN 29 + StrLen(r.key) + StrLen(r.value)
    ELSE IF r.op = "Torn" THEN 8
    ELSE IF r.op = "TornRemove" THEN 10
    ELSE IF r.op = "RestRemove" THEN 11 + StrLen(r.key)
    ELSE 21 + StrLen(r.key)

RECURSIVE FileSize(_)
FileSize(recs) ==
    IF recs = <<>> THEN 0
    ELSE EncodedLen(recs[Len(recs)]) + FileSize(SubSeq(recs, 1, Len(recs) - 1))

\* Byte offset at which the i-th record of a file begins.
OffsetOf(recs, i) == FileSize(SubSeq(recs, 1, i - 1))

EmptyMap == [x \in {} |-> 0]
Insert(m, k, v) == [x \in (DOMAIN m) \cup {k} |-> IF x = k THEN v ELSE m[x]]
Delete(m, k) == [x \in (DOMAIN m) \ {k} |-> m[x]]

ActivePtr(off) == [kind |-> "Active", serial |-> 0, offset |-> off]
PassivePtr(n, off) == [kind |-> "Passive", serial |-> n, offset |-> off]

\* LogPointer::new: the active file by its name, a passive by its number.
LogPointerNew(off, file) ==
    IF file = 0 THEN ActivePtr(off) ELSE PassivePtr(file, off)


\* ------------------------------------------------------------ Log (log.rs)

Min(a, b) == IF a < b THEN a ELSE b
Max(a, b) == IF a < b THEN b ELSE a
Reverse(s) == [i \in 1..Len(s) |-> s[Len(s) + 1 - i]]

RECURSIVE MaxOf(_)
MaxOf(S) ==
    IF S = {} THEN 0
    ELSE LET x == CHOOSE y \in S : TRUE IN Max(x, MaxOf(S \ {x}))

RECURSIVE MinOf(_)
MinOf(S) ==
    LET x == CHOOSE y \in S : TRUE
    IN IF S = {x} THEN x ELSE Min(x, MinOf(S \ {x}))

NoRec == RemoveRec(NoValue)

\* Log::get_record: a fresh reader on the file of the location
\* (File::open(..).unwrap()), seek to the offset, decode one record
\* (.next().unwrap()?).
GetRecord(ptr, act, pas) ==
    IF ptr.kind = "Passive" /\ ptr.serial \notin DOMAIN pas
    THEN [status |-> "Panic", rec |-> NoRec]
    ELSE LET recs == IF ptr.kind = "Active" THEN act ELSE pas[ptr.serial]
             hit == {i \in 1..Len(recs) : OffsetOf(recs, i) = ptr.offset}
         IN IF ptr.offset >= FileSize(recs)
            THEN [status |-> "Panic", rec |-> NoRec]
            ELSE IF hit = {} \/ \E i \in hit : Undecodable(recs[i])
            THEN [status |-> "SerdeError", rec |-> NoRec]
            ELSE [status |-> "Ok", rec |-> recs[CHOOSE i \in hit : TRUE]]

\* Log::open: the greatest serial number among the passive files, or 0.
LogOpenSerial(pas) == MaxOf(DOMAIN pas)

\* A rotation that does not look at the length of the active file: an empty
\* one becomes an empty passive file with a new serial number.
DumpAlways(act, pas, lsn) ==
    [active |-> <<>>,
     passive |-> ((lsn + 1) :> act) @@ pas,
     last_serial_number |-> lsn + 1]

\* A rotation that moves the active file to the passive file of the present
\* serial number, without taking a new one.
DumpKeepsSerial(act, pas, lsn) ==
    IF FileSize(act) = 0
    THEN [active |-> act, passive |-> pas, last_serial_number |-> lsn]
    ELSE [active |-> <<>>,
          passive |-> (lsn :> act) @@ pas,
          last_serial_number |-> lsn]

\* Log::dump: an empty active file is left alone; otherwise the active file
\* is renamed to <last_serial_number + 1>.passive and a new one is created.
LogDump(act, pas, lsn) ==
    IF FileSize(act) = 0
    THEN [active |-> act, passive |-> pas, last_serial_number |-> lsn]
    ELSE [active |-> <<>>,
          passive |-> ((lsn + 1) :> act) @@ pas,
          last_serial_number |-> lsn + 1]

\* Log::create_passive: the records are written in order; the first Err
\* among them ends the write (what was written before it stays in the file).
RECURSIVE CreatePassive(_, _)
CreatePassive(chunk, i) ==
    IF i > Len(chunk) THEN [ok |-> TRUE, recs |-> <<>>]
    ELSE IF chunk[i].status # "Ok" THEN [ok |-> FALSE, recs |-> <<>>]
    ELSE LET rest == CreatePassive(chunk, i + 1)
         IN [ok |-> rest.ok, recs |-> <<chunk[i].rec>> \o rest.recs]

\* The loop of Log::compact: each chunk pops up to RECORDS_IN_COMPACTED
\* records off the end of the vector and goes to the next numbered file.
RECURSIVE WriteChunks(_, _, _)
WriteChunks(records, counter, files) ==
    IF records = <<>>
    THEN [ok |-> TRUE, passive |-> files, counter |-> counter]
    ELSE LET n == Min(RECORDS_IN_COMPACTED, Len(records))
             chunk == Reverse(SubSeq(records, Len(records) - n + 1, Len(records)))
             rest == SubSeq(records, 1, Len(records) - n)
             file == CreatePassive(chunk, 1)
             files2 == ((counter + 1) :> file.recs) @@ files
         IN IF file.ok
            THEN WriteChunks(rest, counter + 1, files2)
            ELSE [ok |-> FALSE, passive |-> files2, counter |-> counter + 1]

\* Log::clear_passives: every *.passive file of the directory is removed.
ClearPassives(pas) == [n \in {} |-> <<>>]

\* A compaction that writes full files only: the records that do not fill
\* a file of RECORDS_IN_COMPACTED records are left out.
CompactWholeChunks(records, pas, lsn) ==
    LET part == Len(records) % RECORDS_IN_COMPACTED
        w == WriteChunks(SubSeq(records, part + 1, Len(records)), 0, ClearPassives(pas))
    IN [ok |-> w.ok,
        passive |-> w.passive,
        last_serial_number |-> IF w.ok THEN w.counter ELSE lsn]

\* Log::compact: clear the passives, write the chunks, store the number of
\* files written in last_serial_number (not reached when a write fails).
LogCompact(records, pas, lsn) ==
    LET w == WriteChunks(records, 0, ClearPassives(pas))
    IN [ok |-> w.ok,
        passive |-> w.passive,
        last_serial_number |-> IF w.ok THEN w.counter ELSE lsn]

\* ------------------------------------------------- KvStore (kv_store.rs)

\* The state of a replay: ok is FALSE once it panicked, err is TRUE once it
\* returned Err(SerdeError).
Replay(idx) == [ok |-> TRUE, err |-> FALSE, idx |-> idx]

\* KvStore::index_datafile: replay one datafile into the index. A Remove of
\* a key that is not in the index panics (index.remove(&key).unwrap()); what
\* does not decode as a record ends the replay with the error (item?).
RECURSIVE IndexDatafile(_, _, _, _)
IndexDatafile(st, file, recs, i) ==
    IF ~st.ok \/ st.err \/ i > Len(recs) THEN st
    ELSE LET r == recs[i] IN
         IF r.op = "Set"
         THEN IndexDatafile(
                Replay(Insert(st.idx, r.key, LogPointerNew(OffsetOf(recs, i), file))),
                file, recs, i + 1)
         ELSE IF Undecodable(r)
         THEN [ok |-> TRUE, err |-> TRUE, idx |-> st.idx]
         ELSE IF r.key \in DOMAIN st.idx
         THEN IndexDatafile(Replay(Delete(st.idx, r.key)), file, recs, i + 1)
         ELSE [ok |-> FALSE, err |-> FALSE, idx |-> st.idx]

RECURSIVE IndexPassives(_, _, _)
IndexPassives(st, pas, todo) ==
    IF todo = {} THEN st
    ELSE LET n == MinOf(todo)
         IN IndexPassives(IndexDatafile(st, n, pas[n], 1), pas, todo \ {n})

\* A replay that takes the passive files in descending order of their
\* serial numbers, and the active file after them.
IndexDescending(act, pas) ==
    LET RECURSIVE Down(_, _)
        Down(st, todo) ==
            IF todo = {} THEN st
            ELSE LET n == MaxOf(todo)
                 IN Down(IndexDatafile(st, n, pas[n], 1), todo \ {n})
    IN IndexDatafile(Down(Replay(EmptyMap), DOMAIN pas), 0, act, 1)

\* KvStore::index: the passive files in ascending order of their serial
\* numbers (BTreeMap order), then the active file.
IndexLog(act, pas) ==
    IndexDatafile(IndexPassives(Replay(EmptyMap), pas, DOMAIN pas),
                  0, act, 1)

\* The match of KvStore::get on the record read.
GetOutcome(rr) ==
    IF rr.status # "Ok" THEN [status |-> rr.status, value |-> NoValue]
    ELSE IF rr.rec.op = "Set" THEN [status |-> "Ok", value |-> rr.rec.value]
    ELSE [status |-> "UnexpectedCommand", value |-> NoValue]

\* What KvStore::get answers for a key in a given state of index and log.
GetValue(k, idx, act, pas) ==
    IF k \notin DOMAIN idx THEN [status |-> "Ok", value |-> NoValue]
    ELSE GetOutcome(GetRecord(idx[k], act, pas))

\* The closure of KvStore::actual_commands: a Set is kept, anything else is
\* an error value.
SurvivorOf(rr) ==
    IF rr.status = "Ok" /\ rr.rec.op = "Remove"
    THEN [status |-> "UnexpectedCommand", rec |-> NoRec]
    ELSE rr

\* The test of KvStore::set on the counter after an overwrite.
NeedsCompaction(counter) == counter > RECORDS_LIMIT

\* ---------------------------------------------------------------- threads

NoLocal == [key |-> NoValue, value |-> NoValue, pos |-> 0, ptr |-> ActivePtr(0),
            newIndex |-> EmptyMap, scan |-> {}, commands |-> <<>>, start |-> 0,
            status |-> "none", todo |-> <<>>, count |-> 0]

NoResult == [op |-> "none", key |-> NoValue, status |-> "none", value |-> NoValue]

Res(op, k, st, v) == [op |-> op, key |-> k, status |-> st, value |-> v]

RECURSIVE SumHeld(_, _)
SumHeld(h, S) ==
    IF S = {} THEN 0
    ELSE LET t == CHOOSE x \in S : TRUE IN h[t] + SumHeld(h, S \ {t})

Handles == SumHeld(held, AllThreads)

LiveMap == [k \in Keys |-> GetValue(k, index, active, passive)]

\* Log::open has not run yet.
NotOpened == [by |-> "none", ok |-> FALSE, last_serial_number |-> 0, error |-> "none"]

InitProgram ==
    /\ active = <<>>
    /\ writer = 0
    /\ passive = [n \in {} |-> <<>>]
    /\ last_serial_number = 0
    /\ index = EmptyMap
    /\ unused_records = 0
    /\ logLock = 0
    /\ indexLock = 0
    /\ poisoned = {}
    /\ held = [t \in AllThreads |-> IF t = 1 THEN 1 ELSE 0]
    /\ pc = [t \in AllThreads |-> "idle"]
    /\ local = [t \in AllThreads |-> NoLocal]
    /\ result = [t \in AllThreads |-> NoResult]
    /\ hist = <<>>
    /\ mySet = [t \in AllThreads |-> [k \in Keys |-> 0]]
    /\ nops = 0
    /\ flags = [nonLastDropCompacted |-> FALSE, lastDropCompacted |-> FALSE,
                justOpened |-> FALSE, liveAtClose |-> LiveMap,
                justCompacted |-> FALSE]
    /\ buffered = <<>>
    /\ backups_dir = [t \in AllThreads |-> "none"]
    /\ backups = <<>>
    /\ kind = "none"
    /\ owner = [pc |-> "start", sent |-> 0, joined |-> 0, waits |-> 0]
    /\ channel = <<>>
    /\ worker = [w \in Workers |-> [pc |-> "unborn", msg |-> NoMessage, shutdowns |-> 0]]
    /\ job = [j \in Jobs |-> NoJob]
    /\ wg_counter = 0
    /\ alive = {}
    /\ made = 0
    /\ waiter = [w \in Waiters |-> [pc |-> "idle", via |-> Original, by |-> "none"]]
    /\ interrupt = FALSE
    /\ loop = [pc |-> "none", server |-> "none", got |-> NoStream, cause |-> "none"]
    /\ conn = [c \in Conns |-> NoConn]
    /\ client = NoClient

Init == InitProgram /\ dirEntries = {} /\ opened = NotOpened

\* A thread may start a method when it owns a handle and runs nothing.
CanStart(t, lim) == pc[t] = "idle" /\ held[t] > 0 /\ nops < lim

\* A panic of thread t while it holds the guards named in `guards`:
\* unwinding drops them, which poisons and releases their mutexes. The
\* handle of a thread that panicked inside a method stays where it is.
Panics(t, op, guards) ==
    /\ pc' = [pc EXCEPT ![t] = "panicked"]
    /\ local' = [local EXCEPT ![t] = NoLocal]
    /\ result' = [result EXCEPT ![t] = Res(op, local[t].key, "Panic", NoValue)]
    /\ poisoned' = poisoned \cup guards
    /\ logLock' = IF "log" \in guards THEN 0 ELSE logLock
    /\ indexLock' = IF "index" \in guards THEN 0 ELSE indexLock

Returns(t, op, k, st, v) ==
    /\ pc' = [pc EXCEPT ![t] = "idle"]
    /\ local' = [local EXCEPT ![t] = NoLocal]
    /\ result' = [result EXCEPT ![t] = Res(op, k, st, v)]

Touched == [flags EXCEPT !.justOpened = FALSE, !.justCompacted = FALSE]

\* The records that the pieces held by the BufWriter belong to (only remove
\* writes through the buffer).
WholeOf(buf) == [i \in 1..Len(buf) |-> RemoveRec(buf[i].key)]

\* The file after the BufWriter has written all of buf to its end: the rest
\* of a record joins the piece of it that the file ends with.
Written(file, buf) ==
    IF buf # <<>> /\ buf[1].op = "RestRemove"
    THEN SubSeq(file, 1, Len(file) - 1) \o WholeOf(buf)
    ELSE file \o buf

\* BufWriter::flush_buf when a write to the file fails: what the file took
\* before the error is written and leaves the buffer, the rest stays in
\* it. i whole pieces are written, and possibly the beginning of the next
\* record; whole lists the records that are complete in the file by now.
FailedFlush(file, buf) ==
    UNION {
        {[file |-> Written(file, SubSeq(buf, 1, i)),
          buf |-> SubSeq(buf, i + 1, Len(buf)),
          whole |-> WholeOf(SubSeq(buf, 1, i))]}
        \cup
        (IF buf[i + 1].op = "Remove"
         THEN {[file |-> Append(Written(file, SubSeq(buf, 1, i)),
                               TornRemove(buf[i + 1].key)),
                buf |-> <<RestRemove(buf[i + 1].key)>> \o SubSeq(buf, i + 2, Len(buf)),
                whole |-> WholeOf(SubSeq(buf, 1, i))]}
         ELSE {})
        : i \in 0..(Len(buf) - 1)}

\* Drop for BufWriter: what the writer still holds is written to its file
\* as far as the file takes it, and the error of that write, if there is
\* one, is ignored; what was not written is gone with the writer.
DroppedWriter(file, buf) ==
    {[file |-> Written(file, buf), whole |-> WholeOf(buf)]}
        \cup {[file |-> f.file, whole |-> f.whole] : f \in FailedFlush(file, buf)}

\* writer.seek(SeekFrom::Current(0)): the BufWriter writes out what it
\* holds (the file is opened with append: at the end of the file) and
\* answers the offset of the file after that.
SeekCurrent(act, buf, off) ==
    IF buf = <<>> THEN off ELSE FileSize(Written(act, buf))

\* --- KvStore::set, up to the flush: the log guard taken here lives until
\* the method returns (let writer = &mut self.log.lock().unwrap()...).
SetAppend(t, k, v, lim) ==
    /\ CanStart(t, lim)
    /\ logLock = 0
    /\ nops' = nops + 1
    /\ IF "log" \in poisoned
       THEN /\ Panics(t, "set", {})
            /\ UNCHANGED <<active, writer, hist, mySet, flags, buffered>>
       ELSE /\ logLock' = t
            /\ active' = Append(Written(active, buffered), SetRec(k, v))
            /\ buffered' = <<>>
            /\ writer' = FileSize(active')
            /\ hist' = Append(hist \o WholeOf(buffered), SetRec(k, v))
            /\ mySet' = [mySet EXCEPT ![t][k] = Len(hist \o buffered) + 1]
            /\ pc' = [pc EXCEPT ![t] = "set_index"]
            /\ local' = [local EXCEPT ![t] =
                 [NoLocal EXCEPT !.key = k, !.value = v,
                                 !.pos = SeekCurrent(active, buffered, writer)]]
            /\ flags' = Touched
            /\ result' = [result EXCEPT ![t] = NoResult]
            /\ UNCHANGED <<poisoned, indexLock>>
    /\ UNCHANGED <<passive, last_serial_number, index, unused_records, held>>
    /\ UNCHANGED <<backups_dir, backups, aroundStore>>

\* --- KvStore::set, from index.insert on. The index guard of the if-let
\* and the log guard are both still held when compact_log() locks the log
\* again: that lock() never returns (it blocks for ever, or panics).
SetIndex(t) ==
    /\ pc[t] = "set_index"
    /\ indexLock = 0
    /\ IF "index" \in poisoned
       THEN /\ Panics(t, "set", {"log"})
            /\ UNCHANGED <<index, unused_records>>
       ELSE LET k == local[t].key
                overwrite == k \in DOMAIN index
                counter == IF overwrite THEN unused_records + 1 ELSE unused_records
            IN /\ index' = Insert(index, k, ActivePtr(local[t].pos))
               /\ unused_records' = counter
               /\ IF overwrite /\ NeedsCompaction(counter)
                  THEN \/ /\ pc' = [pc EXCEPT ![t] = "hung"]
                          /\ indexLock' = t
                          /\ UNCHANGED <<logLock, poisoned, local, result>>
                       \/ Panics(t, "set", {"log", "index"})
                  ELSE /\ Returns(t, "set", k, "Ok", NoValue)
                       /\ logLock' = 0
                       /\ UNCHANGED <<indexLock, poisoned>>
    /\ UNCHANGED <<active, passive, last_serial_number, held, hist, mySet, nops, flags>>
    /\ UNCHANGED <<writer, backupVars, aroundStore>>

\* --- KvStore::remove: the log guard is taken first and kept to the end.
RemoveLock(t, k, lim) ==
    /\ CanStart(t, lim)
    /\ logLock = 0
    /\ nops' = nops + 1
    /\ IF "log" \in poisoned
       THEN Panics(t, "remove", {})
       ELSE /\ logLock' = t
            /\ pc' = [pc EXCEPT ![t] = "rm_index"]
            /\ local' = [local EXCEPT ![t] = [NoLocal EXCEPT !.key = k]]
            /\ result' = [result EXCEPT ![t] = NoResult]
            /\ UNCHANGED <<poisoned, indexLock>>
    /\ UNCHANGED <<active, passive, last_serial_number, index, unused_records,
                   held, hist, mySet, flags>>
    /\ UNCHANGED <<writer, backupVars, aroundStore>>

\* A remove that writes its record and counts it before it looks the key
\* up: the order of statements that C3 excludes.
RemoveWritesFirst(k, idx, act, cnt) ==
    [status |-> IF k \in DOMAIN idx THEN "Ok" ELSE "KeyNotFound",
     index |-> Delete(idx, k),
     active |-> Append(act, RemoveRec(k)),
     counter |-> cnt + 1]

\* What KvStore::remove does after it has the log guard, as a whole:
\* index.remove(&key).ok_or(KeyNotFound)?, then the Remove record and the
\* counter.
RemoveEffect(k, idx, act, cnt) ==
    IF k \notin DOMAIN idx
    THEN [status |-> "KeyNotFound", index |-> idx, active |-> act, counter |-> cnt]
    ELSE [status |-> "Ok", index |-> Delete(idx, k),
          active |-> Append(act, RemoveRec(k)), counter |-> cnt + 1]

\* --- self.index.lock().unwrap().remove(&key).ok_or(KeyNotFound)?: the
\* index guard is a temporary of this statement and is released at its end;
\* the record is written and counted after that, under the log guard alone.
RemoveIndex(t) ==
    /\ pc[t] = "rm_index"
    /\ indexLock = 0
    /\ IF "index" \in poisoned
       THEN /\ Panics(t, "remove", {"log"})
            /\ UNCHANGED index
       ELSE LET k == local[t].key
                e == RemoveEffect(k, index, active, unused_records)
                todo == SubSeq(e.active, Len(active) + 1, Len(e.active))
            IN /\ index' = e.index
               /\ IF todo = <<>> /\ e.counter = unused_records
                  THEN /\ Returns(t, "remove", k, e.status, NoValue)
                       /\ logLock' = 0
                  ELSE /\ pc' = [pc EXCEPT ![t] = "rm_write"]
                       /\ local' = [local EXCEPT ![t].status = e.status,
                                                  ![t].todo = todo,
                                                  ![t].count = e.counter - unused_records]
                       /\ UNCHANGED <<result, logLock>>
               /\ UNCHANGED <<indexLock, poisoned>>
    /\ UNCHANGED <<active, writer, passive, last_serial_number, unused_records,
                   held, hist, mySet, nops, flags>>
    /\ UNCHANGED <<backupVars, aroundStore>>

\* --- serde_json::to_writer(&mut writer, &cmd)?; writer.flush()?;
\* unused_records.fetch_add(1): the record goes through the BufWriter, whose
\* flush writes everything it holds; then remove returns and the log guard
\* is released.
RemoveWrite(t) ==
    /\ pc[t] = "rm_write"
    /\ active' = Written(active, buffered \o local[t].todo)
    /\ buffered' = <<>>
    /\ writer' = FileSize(active')
    /\ unused_records' = unused_records + local[t].count
    /\ hist' = hist \o WholeOf(buffered \o local[t].todo)
    /\ flags' = Touched
    /\ Returns(t, "remove", local[t].key, local[t].status, NoValue)
    /\ logLock' = 0
    /\ UNCHANGED <<passive, last_serial_number, index, indexLock, poisoned,
                   held, mySet, nops>>
    /\ UNCHANGED <<backups_dir, backups, aroundStore>>

\* --- KvStore::get: the index guard is held while the log is locked and
\* the record is read.
GetIndex(t, k, lim) ==
    /\ CanStart(t, lim)
    /\ indexLock = 0
    /\ nops' = nops + 1
    /\ IF "index" \in poisoned
       THEN /\ Panics(t, "get", {})
       ELSE IF k \notin DOMAIN index
       THEN /\ Returns(t, "get", k, "Ok", NoValue)
            /\ UNCHANGED <<indexLock, logLock, poisoned>>
       ELSE /\ indexLock' = t
            /\ pc' = [pc EXCEPT ![t] = "get_read"]
            /\ local' = [local EXCEPT ![t] = [NoLocal EXCEPT !.key = k, !.ptr = index[k]]]
            /\ result' = [result EXCEPT ![t] = NoResult]
            /\ UNCHANGED <<logLock, poisoned>>
    /\ UNCHANGED <<active, passive, last_serial_number, index, unused_records,
                   held, hist, mySet, flags>>
    /\ UNCHANGED <<writer, backupVars, aroundStore>>

GetRead(t) ==
    /\ pc[t] = "get_read"
    /\ logLock = 0
    /\ IF "log" \in poisoned
       THEN Panics(t, "get", {"index"})
       ELSE LET out == GetOutcome(GetRecord(local[t].ptr, active, passive))
            IN IF out.status = "Panic"
               THEN Panics(t, "get", {"log", "index"})
               ELSE /\ Returns(t, "get", local[t].key, out.status, out.value)
                    /\ indexLock' = 0
                    /\ UNCHANGED <<logLock, poisoned>>
    /\ UNCHANGED <<active, passive, last_serial_number, index, unused_records,
                   held, hist, mySet, nops, flags>>
    /\ UNCHANGED <<writer, backupVars, aroundStore>>

\* --- Clone for KvStore: another handle on the same index, log and counter,
\* kept by the thread or handed to another one (Server::run).
\* The clone carries a copy of backups_dir (the handles one thread owns
\* are taken to agree on it).
CloneUpTo(t, u, lim, most) ==
    /\ CanStart(t, lim)
    /\ Handles < most
    /\ held[u] = 0 \/ backups_dir[u] = backups_dir[t]
    /\ held' = [held EXCEPT ![u] = @ + 1]
    /\ backups_dir' = [backups_dir EXCEPT ![u] = backups_dir[t]]
    /\ nops' = nops + 1
    /\ UNCHANGED <<active, passive, last_serial_number, index, unused_records,
                   logLock, indexLock, poisoned, pc, local, result, hist, mySet, flags>>
    /\ UNCHANGED <<writer, buffered, backups, aroundStore>>

Clone(t, u, lim) == CloneUpTo(t, u, lim, MaxHandles)

\* The positions of a thread inside Drop for KvStore.
InDrop == {"reindex", "assign", "backup", "backup_copy", "scan", "scan_read",
           "rewrite", "reindex2", "assign2"}

\* The drop that thread t starts closes the store: t owns one handle and
\* every other handle is already being dropped.
Closing(t) ==
    /\ held[t] = 1
    /\ \A u \in AllThreads \ {t} : held[u] = 0 \/ (held[u] = 1 /\ pc[u] \in InDrop)

\* The end of a drop, by return or by panic: the fields of the handle are
\* dropped after Drop::drop, on both ways out. With the last handle the Log
\* goes, and with it the BufWriter of the active file.
HandleGone(t) ==
    /\ held' = [held EXCEPT ![t] = @ - 1]
    /\ backups_dir' = [backups_dir EXCEPT ![t] = IF held[t] = 1 THEN "none" ELSE @]
    /\ IF Handles = 1
       THEN /\ \E out \in DroppedWriter(active, buffered) :
                 /\ active' = out.file
                 /\ hist' = hist \o out.whole
            /\ buffered' = <<>>
       ELSE UNCHANGED <<active, hist, buffered>>

\* panic!("Error while dropping KvStore: {}", e), or an unwrap inside
\* compact_log: the panic leaves Drop::drop and the handle is gone.
DropPanics(t, guards) == Panics(t, "drop", guards) /\ HandleGone(t)

\* --- Drop for KvStore: every drop of a handle calls compact_log(), whose
\* first statement locks the log and dumps the active file. The writer of
\* the file that was renamed is dropped when the new one is assigned.
DropDump(t, lim) ==
    /\ CanStart(t, lim)
    /\ logLock = 0
    /\ nops' = nops + 1
    /\ IF "log" \in poisoned
       THEN /\ DropPanics(t, {})
            /\ UNCHANGED <<writer, passive, last_serial_number, flags>>
       ELSE LET d == LogDump(active, passive, last_serial_number)
            IN /\ active' = d.active
               /\ writer' = IF FileSize(active) = 0 THEN writer ELSE 0
               /\ IF d.active = active
                  THEN /\ passive' = d.passive
                       /\ UNCHANGED <<hist, buffered>>
                  ELSE /\ \E out \in DroppedWriter(active, buffered) :
                            /\ passive' = [d.passive EXCEPT
                                              ![d.last_serial_number] = out.file]
                            /\ hist' = hist \o out.whole
                       /\ buffered' = <<>>
               /\ last_serial_number' = d.last_serial_number
               /\ pc' = [pc EXCEPT ![t] = "reindex"]
               /\ local' = [local EXCEPT ![t] = [NoLocal EXCEPT !.start = Len(hist)]]
               /\ flags' = [Touched EXCEPT
                    !.nonLastDropCompacted = @ \/ Handles > 1,
                    !.lastDropCompacted = @ \/ Handles = 1,
                    !.liveAtClose = IF Closing(t) THEN LiveMap ELSE @]
               /\ result' = [result EXCEPT ![t] = NoResult]
               /\ UNCHANGED <<poisoned, logLock, indexLock, held, backups_dir>>
    /\ UNCHANGED <<index, unused_records, mySet>>
    /\ UNCHANGED <<backups, aroundStore>>

\* --- KvStore::reindex, right operand of the assignment: the log is locked
\* and KvStore::index replays it.
ReindexLog(t) ==
    /\ pc[t] \in {"reindex", "reindex2"}
    /\ logLock = 0
    /\ IF "log" \in poisoned
       THEN DropPanics(t, {})
       ELSE LET st == IndexLog(active, passive)
            IN IF ~st.ok
               THEN DropPanics(t, {"log"})
               ELSE IF st.err
               THEN DropPanics(t, {})
               ELSE /\ logLock' = t
                    /\ pc' = [pc EXCEPT ![t] = IF pc[t] = "reindex" THEN "assign" ELSE "assign2"]
                    /\ local' = [local EXCEPT ![t].newIndex = st.idx]
                    /\ UNCHANGED <<result, poisoned, indexLock>>
                    /\ UNCHANGED <<active, held, hist, buffered, backups_dir>>
    /\ UNCHANGED <<passive, last_serial_number, index, unused_records,
                   mySet, nops, flags>>
    /\ UNCHANGED <<writer, backups, aroundStore>>

\* --- KvStore::reindex, left operand: the index is locked (the log guard is
\* still held) and replaced. After the second reindex compact_log returns
\* and the drop ends: the handle is gone.
ReindexAssign(t) ==
    /\ pc[t] \in {"assign", "assign2"}
    /\ indexLock = 0
    /\ IF "index" \in poisoned
       THEN /\ DropPanics(t, {"log"})
            /\ UNCHANGED <<index, flags>>
       ELSE /\ index' = local[t].newIndex
            /\ logLock' = 0
            /\ UNCHANGED <<indexLock, poisoned>>
            /\ IF pc[t] = "assign"
               THEN /\ pc' = [pc EXCEPT ![t] =
                         IF backups_dir[t] = "none" THEN "scan" ELSE "backup"]
                    /\ local' = [local EXCEPT ![t].newIndex = EmptyMap]
                    /\ UNCHANGED <<result, held, flags, active, hist, buffered,
                                   backups_dir>>
               ELSE /\ Returns(t, "drop", NoValue, "Ok", NoValue)
                    /\ HandleGone(t)
                    /\ flags' = [flags EXCEPT !.justCompacted = (Len(hist) = local[t].start)]
    /\ UNCHANGED <<passive, last_serial_number, unused_records, mySet, nops>>
    /\ UNCHANGED <<writer, backups, aroundStore>>

\* --- The backup of compact_log (if let Some(backups_dir) = ..), first
\* statement of KvStore::backup: fs::create_dir of a new directory under
\* backups_dir, with no mutex taken. An Err of create_dir (the parent is
\* not there) goes up through compact_log, and the drop panics.
Backup(t) ==
    /\ pc[t] = "backup"
    /\ IF backups_dir[t] = "bad"
       THEN /\ DropPanics(t, {})
            /\ UNCHANGED backups
       ELSE /\ backups' = Append(backups, ClearPassives(passive))
            /\ pc' = [pc EXCEPT ![t] = "backup_copy"]
            /\ local' = [local EXCEPT ![t].count = Len(backups) + 1]
            /\ UNCHANGED <<result, poisoned, logLock, indexLock>>
            /\ UNCHANGED <<active, held, hist, buffered, backups_dir>>
    /\ UNCHANGED <<writer, passive, last_serial_number, index, unused_records,
                   mySet, nops, flags>>
    /\ UNCHANGED aroundStore

\* --- The loop of KvStore::backup: the log is locked for the whole loop and
\* every passive file is copied into the new directory.
BackupCopy(t) ==
    /\ pc[t] = "backup_copy"
    /\ logLock = 0
    /\ IF "log" \in poisoned
       THEN /\ DropPanics(t, {})
            /\ UNCHANGED backups
       ELSE /\ backups' = [backups EXCEPT ![local[t].count] = passive]
            /\ pc' = [pc EXCEPT ![t] = "scan"]
            /\ local' = [local EXCEPT ![t].count = 0]
            /\ UNCHANGED <<result, poisoned, logLock, indexLock>>
            /\ UNCHANGED <<active, held, hist, buffered, backups_dir>>
    /\ UNCHANGED <<writer, passive, last_serial_number, index, unused_records,
                   mySet, nops, flags>>
    /\ UNCHANGED aroundStore

\* --- KvStore::set_backups_dir (&mut self): the handle of the thread
\* remembers the path.
SetBackupsDir(t, d, lim) ==
    /\ CanStart(t, lim)
    /\ held[t] = 1
    /\ nops' = nops + 1
    /\ backups_dir' = [backups_dir EXCEPT ![t] = d]
    /\ Returns(t, "set_backups_dir", NoValue, "Ok", NoValue)
    /\ UNCHANGED <<active, writer, passive, last_serial_number, index, unused_records,
                   logLock, indexLock, poisoned, held, hist, mySet, flags,
                   buffered, backups>>
    /\ UNCHANGED aroundStore

\* --- KvStore::actual_commands: the index guard is taken for the whole
\* iteration over index.values().
ScanStart(t) ==
    /\ pc[t] = "scan"
    /\ indexLock = 0
    /\ IF "index" \in poisoned
       THEN DropPanics(t, {})
       ELSE /\ IF DOMAIN index = {}
               THEN /\ pc' = [pc EXCEPT ![t] = "rewrite"]
                    /\ UNCHANGED <<local, result, poisoned, logLock, indexLock>>
               ELSE /\ indexLock' = t
                    /\ pc' = [pc EXCEPT ![t] = "scan_read"]
                    /\ local' = [local EXCEPT ![t].scan = DOMAIN index]
                    /\ UNCHANGED <<result, poisoned, logLock>>
            /\ UNCHANGED <<active, held, hist, buffered, backups_dir>>
    /\ UNCHANGED <<passive, last_serial_number, index, unused_records,
                   mySet, nops, flags>>
    /\ UNCHANGED <<writer, backups, aroundStore>>

\* One step of the iteration: the log is locked for one get_record. The
\* HashMap yields its values in an arbitrary order.
ScanRead(t) ==
    /\ pc[t] = "scan_read"
    /\ logLock = 0
    /\ IF "log" \in poisoned
       THEN DropPanics(t, {"index"})
       ELSE \E k \in local[t].scan :
            LET rr == GetRecord(index[k], active, passive)
                left == local[t].scan \ {k}
            IN IF rr.status = "Panic"
               THEN DropPanics(t, {"log", "index"})
               ELSE /\ local' = [local EXCEPT
                         ![t].scan = left,
                         ![t].commands = Append(@, SurvivorOf(rr))]
                    /\ pc' = [pc EXCEPT ![t] = IF left = {} THEN "rewrite" ELSE "scan_read"]
                    /\ indexLock' = IF left = {} THEN 0 ELSE indexLock
                    /\ UNCHANGED <<result, poisoned, logLock>>
                    /\ UNCHANGED <<active, held, hist, buffered, backups_dir>>
    /\ UNCHANGED <<passive, last_serial_number, index, unused_records,
                   mySet, nops, flags>>
    /\ UNCHANGED <<writer, backups, aroundStore>>

\* --- self.log.lock().unwrap().compact(commands)?: an Err makes
\* compact_log return it and the drop panic.
Rewrite(t) ==
    /\ pc[t] = "rewrite"
    /\ logLock = 0
    /\ IF "log" \in poisoned
       THEN /\ DropPanics(t, {})
            /\ UNCHANGED <<passive, last_serial_number, flags>>
       ELSE LET c == LogCompact(local[t].commands, passive, last_serial_number)
            IN /\ passive' = c.passive
               /\ last_serial_number' = c.last_serial_number
               /\ flags' = Touched
               /\ IF c.ok
                  THEN /\ pc' = [pc EXCEPT ![t] = "reindex2"]
                       /\ local' = [local EXCEPT ![t].commands = <<>>]
                       /\ UNCHANGED <<result, poisoned, logLock, indexLock>>
                       /\ UNCHANGED <<active, held, hist, buffered, backups_dir>>
                  ELSE DropPanics(t, {})
    /\ UNCHANGED <<index, unused_records, mySet, nops>>
    /\ UNCHANGED <<writer, backups, aroundStore>>

\* --- KvStore::open on the directory, once no handle is left: Log::open,
\* KvStore::index, a new counter and new mutexes. A thread whose drop
\* panicked has ended; another one may open the directory after it.
Open(t, lim) ==
    /\ Handles = 0
    /\ pc[t] = "idle"
    /\ \A u \in AllThreads : pc[u] \in {"idle", "panicked"}
    /\ nops < lim
    /\ nops' = nops + 1
    /\ LET st == IndexLog(active, passive)
       IN IF ~st.ok
          THEN /\ Panics(t, "open", {})
               /\ UNCHANGED <<writer, last_serial_number, index, unused_records,
                              held, flags>>
          ELSE IF st.err
          THEN /\ Returns(t, "open", NoValue, "SerdeError", NoValue)
               /\ UNCHANGED <<writer, last_serial_number, index, unused_records,
                              held, flags, logLock, indexLock, poisoned>>
          ELSE /\ last_serial_number' = LogOpenSerial(passive)
               /\ writer' = 0
               /\ index' = st.idx
               /\ unused_records' = 0
               /\ logLock' = 0
               /\ indexLock' = 0
               /\ poisoned' = {}
               /\ held' = [held EXCEPT ![t] = 1]
               /\ Returns(t, "open", NoValue, "Ok", NoValue)
               /\ flags' = [flags EXCEPT !.justOpened = TRUE, !.justCompacted = FALSE]
    /\ UNCHANGED <<active, passive, hist, mySet>>
    /\ UNCHANGED <<backupVars, aroundStore>>

\* ---------------------------------------------------------- specifications

\* The steps of Drop for KvStore in thread t.
DropStep(t, lim) ==
    \/ DropDump(t, lim)
    \/ ReindexLog(t)
    \/ ReindexAssign(t)
    \/ ScanStart(t)
    \/ ScanRead(t)
    \/ Rewrite(t)

\* The steps of thread t that write the log or rebuild the index; t hands
\* its clones to the threads of T and uses the keys of K.
WriteStep(t, T, K, lim) ==
    \/ \E k \in K, v \in Values : SetAppend(t, k, v, lim)
    \/ SetIndex(t)
    \/ \E k \in K : RemoveLock(t, k, lim)
    \/ RemoveIndex(t)
    \/ RemoveWrite(t)
    \/ \E u \in T : Clone(t, u, lim)
    \/ DropStep(t, lim)
    \/ Open(t, lim)

\* Every step of thread t: the above and get.
Step(t, T, K, lim) ==
    \/ WriteStep(t, T, K, lim)
    \/ \E k \in K : GetIndex(t, k, lim)
    \/ GetRead(t)

\* Threads working through cloned handles of one store.
Next == \E t \in Threads : Step(t, Threads, TwoKeys, MaxOps)

Spec == Init /\ [][Next]_vars

\* The same threads over longer runs.
NextLong == \E t \in Threads : Step(t, Threads, TwoKeys, LongOps)

SpecLong == Init /\ [][NextLong]_vars


\* The methods that make backups: set_backups_dir and the backup step of a
\* drop that follows it.
BackupStep(t, lim) ==
    \* the directories handed to set_backups_dir: one in which a directory
    \* can be created, and one whose parent does not exist
    \/ \E d \in {"good", "bad"} : SetBackupsDir(t, d, lim)
    \/ Backup(t)
    \/ BackupCopy(t)

\* Thread 1 writes and hands out clones, as the thread in Server::run
\* does; thread 2 drops the clones it is given.
ShortOps == 5

NextShort == WriteStep(1, Threads, TwoKeys, ShortOps) \/ DropStep(2, ShortOps)

SpecShort == Init /\ [][NextShort]_vars

\* One thread owning every handle.
NextSeq == Step(1, {1}, Keys, SeqOps) \/ BackupStep(1, SeqOps)

SpecSeq == Init /\ [][NextSeq]_vars

\* Three handles: thread 1 opens the store, hands a clone to each of the
\* others and drops its own handle before the first write; thread 3 runs a
\* client that writes three records and then drops its handle; thread 2
\* drops its handle when the client has written twice. The steps of the
\* three drops and of the writes interleave freely.
ThreeOps == 8

ThreeWrites == <<SetRec("a", "1"), SetRec("b", "1"), SetRec("c", "22")>>

NextThree ==
    \/ \E u \in AllThreads \ {1} : held[u] = 0 /\ CloneUpTo(1, u, ThreeOps, 3)
    \/ /\ Len(hist) < Len(ThreeWrites)
       /\ SetAppend(3, ThreeWrites[Len(hist) + 1].key, ThreeWrites[Len(hist) + 1].value, ThreeOps)
    \/ SetIndex(3)
    \/ \E t \in AllThreads :
          \/ /\ (t = 1 => hist = <<>>) /\ (t = 2 => Len(hist) >= 2)
             /\ DropDump(t, ThreeOps)
          \/ ReindexLog(t)
          \/ ReindexAssign(t)
          \/ ScanStart(t)
          \/ ScanRead(t)
          \/ Rewrite(t)

SpecThree == Init /\ [][NextThree]_vars

\* --- The end of the process with handles that were never dropped. A thread
\* that panics unwinds into Drop for KvStore, whose compact_log() unwraps the
\* lock of a poisoned mutex: a panic while panicking, which aborts the
\* process; a thread hung in set keeps the process from ending until it is
\* killed. What is in memory is gone, the files stay as they are.
Exit ==
    /\ \E t \in AllThreads : pc[t] \in {"panicked", "hung"}
    /\ held' = [t \in AllThreads |-> 0]
    /\ pc' = [t \in AllThreads |-> "idle"]
    /\ local' = [t \in AllThreads |-> NoLocal]
    /\ result' = [t \in AllThreads |-> NoResult]
    /\ logLock' = 0
    /\ indexLock' = 0
    /\ poisoned' = {}
    /\ index' = EmptyMap
    /\ unused_records' = 0
    /\ buffered' = <<>>
    /\ backups_dir' = [t \in AllThreads |-> "none"]
    /\ UNCHANGED <<active, writer, passive, last_serial_number, hist, mySet,
                   nops, flags>>
    /\ UNCHANGED <<backups, aroundStore>>

\* --- KvStore::set when the write of the record fails (the disk is full,
\* the device answers an error). When the flush inside seek fails, set
\* returns that io error; what the file took of the buffer before the error
\* is written. Otherwise the buffer is written, and serde_json::to_writer(writer.get_mut(), &cmd)? returns its
\* error, a SerdeError around the io error, before the index is touched;
\* the file keeps nothing of the record, or its first pieces.
SetFails(t, k, v, lim) ==
    /\ CanStart(t, lim)
    /\ logLock = 0
    /\ "log" \notin poisoned
    /\ nops' = nops + 1
    /\ pc' = [pc EXCEPT ![t] = "idle"]
    /\ local' = [local EXCEPT ![t] = NoLocal]
    /\ \/ \E f \in FailedFlush(active, buffered) :
             /\ active' = f.file
             /\ writer' = IF active' = active THEN writer ELSE FileSize(active')
             /\ hist' = hist \o f.whole
             /\ buffered' = f.buf
             /\ flags' = IF active' = active THEN flags ELSE Touched
             /\ result' = [result EXCEPT ![t] = Res("set", k, "StorageFileError", NoValue)]
       \/ \E left \in {<<>>, <<TornRec>>} :
             /\ active' = Written(active, buffered) \o left
             /\ writer' = IF active' = active THEN writer ELSE FileSize(active')
             /\ hist' = hist \o WholeOf(buffered)
             /\ buffered' = <<>>
             /\ flags' = IF active' = active THEN flags ELSE Touched
             /\ result' = [result EXCEPT ![t] = Res("set", k, "SerdeError", NoValue)]
    /\ UNCHANGED <<passive, last_serial_number, index,
                   unused_records, logLock, indexLock, poisoned, held, mySet>>
    /\ UNCHANGED <<backups_dir, backups, aroundStore>>

\* --- KvStore::remove when the write of the record fails: the entry has
\* left the index (index.remove(&key).ok_or(KeyNotFound)?); the record is
\* in the BufWriter when flush()? returns the error of the write. What the
\* file took before the error is written; the rest stays in the buffer
\* until something makes the writer write again. The counter is not
\* reached.
RemoveFails(t) ==
    /\ pc[t] = "rm_write"
    /\ \E f \in FailedFlush(active, buffered \o local[t].todo) :
          /\ active' = f.file
          /\ writer' = IF active' = active THEN writer ELSE FileSize(active')
          /\ hist' = hist \o f.whole
          /\ buffered' = f.buf
          /\ flags' = IF active' = active THEN flags ELSE Touched
    /\ Returns(t, "remove", local[t].key, "StorageFileError", NoValue)
    /\ logLock' = 0
    /\ UNCHANGED <<passive, last_serial_number, index, unused_records,
                   indexLock, poisoned, held, mySet, nops>>
    /\ UNCHANGED <<backups_dir, backups, aroundStore>>

\* One thread on a disk whose writes may fail, in a process that may die
\* and be started again.
NextFaulty ==
    \/ Step(1, {1}, TwoKeys, SeqOps)
    \/ BackupStep(1, SeqOps)
    \/ Exit
    \/ \E k \in TwoKeys, v \in Values : SetFails(1, k, v, SeqOps)
    \/ RemoveFails(1)

SpecFaulty == Init /\ [][NextFaulty]_vars

\* ------------------------------------------------------ KvStore (kv.rs)
\* The store of kv.rs: one owner (&mut self), no mutexes, the same files.
\* Its set checks the counter after every write and compacts in place.

\* A tail of set that resets the counter before it compacts.
ResetBeforeCompact == <<"old_reset", "old_compact", "old_reindex">>

\* The statements of set after the threshold test, in their order:
\* self.compact()?; self.reindex()?; self.unused_records = 0.
OldSetStages == <<"old_compact", "old_reindex", "old_reset">>

\* The enumerations of a set: HashMap::values() yields in arbitrary order.
Orders(S) ==
    {o \in [1..Cardinality(S) -> S] : \A i, j \in 1..Cardinality(S) : o[i] = o[j] => i = j}

\* From one statement of the tail to the next; after the last one set
\* returns Ok(()).
OldAdvance(t, stage) ==
    LET i == CHOOSE n \in 1..Len(OldSetStages) : OldSetStages[n] = stage
    IN IF i = Len(OldSetStages)
       THEN Returns(t, "set", local[t].key, "Ok", NoValue)
       ELSE /\ pc' = [pc EXCEPT ![t] = OldSetStages[i + 1]]
            /\ UNCHANGED <<local, result>>

\* --- KvStore::set of kv.rs up to the threshold test: the record is
\* appended and indexed, an overwrite is counted, and the test (outside the
\* if-let) decides whether the tail runs.
OldSetWrite(t, k, v, lim) ==
    /\ CanStart(t, lim)
    /\ nops' = nops + 1
    /\ active' = Append(active, SetRec(k, v))
    /\ writer' = FileSize(active')
    /\ index' = Insert(index, k, ActivePtr(writer))
    /\ hist' = Append(hist, SetRec(k, v))
    /\ mySet' = [mySet EXCEPT ![t][k] = Len(hist) + 1]
    /\ flags' = Touched
    /\ LET counter == IF k \in DOMAIN index THEN unused_records + 1 ELSE unused_records
       IN /\ unused_records' = counter
          /\ IF NeedsCompaction(counter)
             THEN /\ pc' = [pc EXCEPT ![t] = OldSetStages[1]]
                  /\ local' = [local EXCEPT ![t] = [NoLocal EXCEPT !.key = k, !.value = v]]
                  /\ result' = [result EXCEPT ![t] = NoResult]
             ELSE Returns(t, "set", k, "Ok", NoValue)
    /\ UNCHANGED <<passive, last_serial_number, logLock, indexLock, poisoned, held>>
    /\ UNCHANGED <<backupVars, aroundStore>>

\* The reader and the writer of the active file of kv.rs are clones of one
\* file (try_clone) and share its offset: a read through the BufReader
\* leaves it at the end of a file that is shorter than the reader's buffer.
\* So the writer stands at FileSize of the active file after each read.

\* KvStore::compact of kv.rs: dump, reindex, read the survivors through
\* the index (HashMap::values() yields in an arbitrary order), remove the
\* passive files, write the survivors into new ones. A replay that panics
\* or fails ends it before the index is assigned.
\* (Log::dump of kv.rs opens the new active file by its bare name: the
\* store is taken to run in its own directory, as kvs does.)
OldCompaction(idx, act, pas) ==
    LET d == LogDump(act, pas, MaxOf(DOMAIN pas))
        st == IndexLog(d.active, d.passive)
    IN IF ~st.ok \/ st.err
       THEN {[status |-> IF st.err THEN "SerdeError" ELSE "Panic",
              active |-> d.active, passive |-> d.passive, index |-> idx]}
       ELSE {LET commands == [i \in 1..Len(o) |->
                                SurvivorOf(GetRecord(st.idx[o[i]], d.active, d.passive))]
                 c == LogCompact(commands, d.passive, d.last_serial_number)
             IN [status |-> IF c.ok THEN "Ok" ELSE "UnexpectedCommand",
                 active |-> d.active, passive |-> c.passive, index |-> st.idx]
             : o \in Orders(DOMAIN st.idx)}

\* A panic inside a method of the store unwinds the frame that owns the
\* store: Drop for KvStore is what runs next.
OldUnwinds(t, op) ==
    /\ pc' = [pc EXCEPT ![t] = "old_unwind"]
    /\ local' = [local EXCEPT ![t] = NoLocal]
    /\ result' = [result EXCEPT ![t] = Res(op, local[t].key, "Panic", NoValue)]

\* --- self.compact()? of set. When its first statement, self.log.dump()?,
\* fails (the rename is refused), the error goes up through set and nothing
\* has changed.
OldCompact(t) ==
    /\ pc[t] = "old_compact"
    /\ \/ /\ Returns(t, "set", local[t].key, "StorageFileError", NoValue)
          /\ UNCHANGED <<active, writer, passive, index>>
       \/ \E out \in OldCompaction(index, active, passive) :
             /\ active' = out.active
             /\ writer' = FileSize(out.active)
             /\ index' = out.index
             /\ passive' = out.passive
             /\ IF out.status = "Ok" THEN OldAdvance(t, "old_compact")
                ELSE IF out.status = "Panic" THEN OldUnwinds(t, "set")
                ELSE Returns(t, "set", local[t].key, out.status, NoValue)
    /\ UNCHANGED <<last_serial_number, unused_records, logLock, indexLock,
                   poisoned, held, hist, mySet, nops, flags>>
    /\ UNCHANGED <<backupVars, aroundStore>>

\* --- self.reindex()? of set: the index is rebuilt from the new files.
OldReindex(t) ==
    /\ pc[t] = "old_reindex"
    /\ LET st == IndexLog(active, passive)
       IN IF ~st.ok
          THEN OldUnwinds(t, "set") /\ UNCHANGED index
          ELSE IF st.err
          THEN Returns(t, "set", local[t].key, "SerdeError", NoValue) /\ UNCHANGED index
          ELSE index' = st.idx /\ OldAdvance(t, "old_reindex")
    /\ writer' = FileSize(active)
    /\ UNCHANGED <<active, passive, last_serial_number, unused_records,
                   logLock, indexLock, poisoned, held, hist, mySet, nops, flags>>
    /\ UNCHANGED <<backupVars, aroundStore>>

\* --- self.unused_records = 0.
OldReset(t) ==
    /\ pc[t] = "old_reset"
    /\ unused_records' = 0
    /\ OldAdvance(t, "old_reset")
    /\ UNCHANGED <<active, writer, passive, last_serial_number, index,
                   logLock, indexLock, poisoned, held, hist, mySet, nops, flags>>
    /\ UNCHANGED <<backupVars, aroundStore>>

\* --- KvStore::remove of kv.rs: the entry leaves the index, the Remove
\* record is written and counted; the threshold is not looked at.
OldRemove(t, k, lim) ==
    /\ CanStart(t, lim)
    /\ nops' = nops + 1
    /\ LET e == RemoveEffect(k, index, active, unused_records)
       IN /\ index' = e.index
          /\ active' = e.active
          /\ writer' = IF e.active = active THEN writer ELSE FileSize(e.active)
          /\ unused_records' = e.counter
          /\ hist' = hist \o SubSeq(e.active, Len(active) + 1, Len(e.active))
          /\ flags' = IF e.active = active THEN flags ELSE Touched
          /\ Returns(t, "remove", k, e.status, NoValue)
    /\ UNCHANGED <<passive, last_serial_number, logLock, indexLock, poisoned, held, mySet>>
    /\ UNCHANGED <<backupVars, aroundStore>>

\* --- KvStore::get of kv.rs: read_command seeks the reader of the file
\* the pointer names and decodes one record; its unwraps panic for a
\* passive file that is not in the map and at the end of a file.
OldGet(t, k, lim) ==
    /\ CanStart(t, lim)
    /\ nops' = nops + 1
    /\ LET out == GetValue(k, index, active, passive)
       IN /\ IF out.status = "Panic"
             THEN /\ pc' = [pc EXCEPT ![t] = "old_unwind"]
                  /\ local' = [local EXCEPT ![t] = NoLocal]
                  /\ result' = [result EXCEPT ![t] = Res("get", k, "Panic", NoValue)]
             ELSE Returns(t, "get", k, out.status, out.value)
          /\ writer' = IF k \in DOMAIN index /\ index[k].kind = "Active"
                        THEN FileSize(active) ELSE writer
    /\ UNCHANGED <<active, passive, last_serial_number, index, unused_records,
                   logLock, indexLock, poisoned, held, hist, mySet, flags>>
    /\ UNCHANGED <<backupVars, aroundStore>>

\* --- Drop for KvStore of kv.rs, called when the owner lets the store go
\* or when a panic unwinds past it: self.compact(), and panic! when that
\* returns an error. A panic of a drop that runs during unwinding aborts
\* the process. The store is gone afterwards in every case.
OldDrop(t, lim) ==
    /\ \/ CanStart(t, lim) /\ nops' = nops + 1
       \/ pc[t] = "old_unwind" /\ held[t] > 0 /\ UNCHANGED nops
    /\ held' = [held EXCEPT ![t] = 0]
    /\ local' = [local EXCEPT ![t] = NoLocal]
    /\ LET unwinding == pc[t] = "old_unwind"
           failed == IF unwinding THEN "aborted" ELSE "panicked"
       IN \/ /\ pc' = [pc EXCEPT ![t] = failed]
             /\ result' = [result EXCEPT ![t] = Res("drop", NoValue, "Panic", NoValue)]
             /\ UNCHANGED <<active, writer, passive, index, flags>>
          \/ \E out \in OldCompaction(index, active, passive) :
                /\ active' = out.active
                /\ writer' = FileSize(out.active)
                /\ index' = out.index
                /\ passive' = out.passive
                /\ flags' = [Touched EXCEPT !.lastDropCompacted = TRUE,
                                            !.liveAtClose = LiveMap]
                /\ IF out.status = "Ok"
                   THEN /\ pc' = [pc EXCEPT ![t] = IF unwinding THEN "panicked" ELSE "idle"]
                        /\ result' = [result EXCEPT ![t] =
                             IF unwinding THEN @ ELSE Res("drop", NoValue, "Ok", NoValue)]
                   ELSE /\ pc' = [pc EXCEPT ![t] = failed]
                        /\ result' = [result EXCEPT ![t] =
                             Res("drop", NoValue, "Panic", NoValue)]
    /\ UNCHANGED <<last_serial_number, unused_records, logLock, indexLock,
                   poisoned, hist, mySet>>
    /\ UNCHANGED <<backupVars, aroundStore>>

\* --- KvStore::open of kv.rs on the directory the last store left (the
\* program is run again): Log::open, the replay, a counter of 0.
OldOpen(t, lim) ==
    /\ held[t] = 0
    /\ pc[t] \in {"idle", "panicked", "aborted"}
    /\ nops < lim
    /\ nops' = nops + 1
    /\ local' = [local EXCEPT ![t] = NoLocal]
    /\ writer' = FileSize(active)
    /\ LET st == IndexLog(active, passive)
       IN IF ~st.ok \/ st.err
          THEN /\ pc' = [pc EXCEPT ![t] = IF st.err THEN "idle" ELSE "panicked"]
               /\ result' = [result EXCEPT ![t] =
                    Res("open", NoValue, IF st.err THEN "SerdeError" ELSE "Panic", NoValue)]
               /\ UNCHANGED <<index, unused_records, held, flags>>
          ELSE /\ index' = st.idx
               /\ unused_records' = 0
               /\ held' = [held EXCEPT ![t] = 1]
               /\ pc' = [pc EXCEPT ![t] = "idle"]
               /\ result' = [result EXCEPT ![t] = Res("open", NoValue, "Ok", NoValue)]
               /\ flags' = [flags EXCEPT !.justOpened = TRUE, !.justCompacted = FALSE]
    /\ UNCHANGED <<active, passive, last_serial_number, logLock, indexLock,
                   poisoned, hist, mySet>>
    /\ UNCHANGED <<backupVars, aroundStore>>

\* The owner of a store of kv.rs.
NextOld ==
    \/ \E k \in TwoKeys, v \in Values : OldSetWrite(1, k, v, SeqOps)
    \/ OldCompact(1)
    \/ OldReindex(1)
    \/ OldReset(1)
    \/ \E k \in TwoKeys : OldRemove(1, k, SeqOps)
    \/ \E k \in TwoKeys : OldGet(1, k, SeqOps)
    \/ OldDrop(1, SeqOps)
    \/ OldOpen(1, SeqOps)

SpecOld == Init /\ [][NextOld]_vars

\* The threads of a process that may die and be started again on the same
\* directory.
NextRestart == (\E t \in Threads : Step(t, Threads, TwoKeys, MaxOps)) \/ Exit

SpecRestart == Init /\ [][NextRestart]_vars

\* -------------------------------------------------------------- thread pools

\* The job the next spawn hands over: closures are numbered in spawn order.
NextJob == CHOOSE j \in Jobs : job[j].state = "unspawned" /\ \A i \in Jobs : i < j => job[i].state # "unspawned"

CanSpawn(k) == kind = k /\ owner.pc = "ready" /\ \E j \in Jobs : job[j].state = "unspawned"

\* The receiver lives as long as one worker thread holds its Arc.
ReceiverAlive == \E w \in Workers : worker[w].pc \in {"recv", "handle"}

LiveWorkers == {w \in Workers : worker[w].pc \in {"recv", "handle"}}

\* Drop's first loop: one Shutdown per element of self.workers.
ShutdownsToSend == NWorkers

\* --- ThreadPool::new of the three implementations. The queue pool starts
\* its worker threads; the other two keep no state of their own here.
PoolNew(k) ==
    /\ owner.pc = "start"
    /\ kind' = k
    /\ owner' = [owner EXCEPT !.pc = "ready"]
    /\ worker' = IF k = "queue"
                 THEN [w \in Workers |-> [worker[w] EXCEPT !.pc = "recv"]]
                 ELSE worker
    /\ UNCHANGED <<channel, job>>
    /\ UNCHANGED <<storeVars, dirVars, wgVars, srvVars, cliVars>>

\* The jobs whose closures wait in the channel, oldest first.
RECURSIVE QueuedJobs(_)
QueuedJobs(ch) ==
    IF ch = <<>> THEN <<>>
    ELSE (IF Head(ch).tag = "New" THEN <<Head(ch).job>> ELSE <<>>) \o QueuedJobs(Tail(ch))

\* Drop for Receiver: the messages still in the channel are destroyed,
\* oldest first, as far as the first closure whose destruction panics.
RECURSIVE Destroyed(_, _)
Destroyed(js, jb) ==
    IF js = <<>> THEN {}
    ELSE IF jb[Head(js)].dropPanics THEN {Head(js)}
    ELSE {Head(js)} \cup Destroyed(Tail(js), jb)

\* A panic in a destructor that runs while the thread unwinds from another
\* panic aborts the process: every thread of it ends there.
Aborted ==
    [workers |->
        [v \in Workers |->
            IF worker[v].pc \in {"recv", "handle"}
            THEN [worker[v] EXCEPT !.pc = "aborted", !.msg = NoMessage]
            ELSE worker[v]],
     loop |->
        IF loop.pc \in {"accept", "check", "dispatch", "serve"}
        THEN [loop EXCEPT !.pc = "aborted"]
        ELSE loop]

\* --- QueueThreadPool::spawn: sender.send(Message::New(job)).unwrap().
\* send fails, and unwrap panics, once no receiver is left; the closure
\* comes back inside the error and is destroyed while the panic unwinds.
\* The unwinding thread owns the pool and drops it: Drop for
\* QueueThreadPool sends Shutdown, that send fails as well, and its unwrap
\* panics inside a destructor during the unwinding, which aborts the
\* process.
QueueSpawn(rp, dp) ==
    /\ CanSpawn("queue")
    /\ IF ReceiverAlive
       THEN /\ channel' = Append(channel, NewMessage(NextJob))
            /\ job' = [job EXCEPT ![NextJob] =
                 [NoJob EXCEPT !.state = "queued", !.runPanics = rp, !.dropPanics = dp]]
            /\ UNCHANGED <<owner, worker, loop>>
       ELSE /\ owner' = [owner EXCEPT !.pc = "aborted"]
            /\ job' = [job EXCEPT ![NextJob] =
                 [NoJob EXCEPT !.state = "dropped", !.runPanics = rp, !.dropPanics = dp]]
            /\ worker' = Aborted.workers
            /\ loop' = Aborted.loop
            /\ UNCHANGED channel
    /\ UNCHANGED <<kind, interrupt, conn>>
    /\ UNCHANGED <<storeVars, dirVars, wgVars, cliVars>>

\* --- Worker loop: receiver.lock().unwrap().recv().unwrap(). The guard
\* is released at the end of the statement, with the message in hand.
WorkerRecv(w) ==
    /\ worker[w].pc = "recv"
    /\ channel # <<>>
    /\ channel' = Tail(channel)
    /\ worker' = [worker EXCEPT
         ![w].pc = "handle",
         ![w].msg = Head(channel),
         ![w].shutdowns = IF Head(channel).tag = "Shutdown" THEN @ + 1 ELSE @]
    /\ job' = IF Head(channel).tag = "New"
              THEN [job EXCEPT ![Head(channel).job].state = "taken",
                               ![Head(channel).job].by = w]
              ELSE job
    /\ UNCHANGED <<kind, owner>>
    /\ UNCHANGED <<storeVars, dirVars, wgVars, srvVars, cliVars>>

\* --- Worker loop, the match on the message. Message::New(job) only logs:
\* the call of the job is commented out, so the closure is destroyed at the
\* end of the arm without having run; a panic of that destruction unwinds
\* the worker thread. Message::Shutdown leaves the loop. The thread that
\* ends owns an Arc of the receiver: when it is the last worker, the
\* receiver is dropped with it and the closures still in the channel are
\* destroyed; one of them panicking while the thread unwinds already is a
\* panic inside a panic, which aborts the process.
WorkerHandle(w) ==
    /\ worker[w].pc = "handle"
    /\ LET m == worker[w].msg
           panics == m.tag = "New" /\ job[m.job].dropPanics
           ends == m.tag = "Shutdown" \/ panics
           last == ends /\ LiveWorkers = {w}
           lost == IF last THEN Destroyed(QueuedJobs(channel), job) ELSE {}
           again == \E j \in lost : job[j].dropPanics
           mine == IF m.tag = "New" THEN {m.job} ELSE {}
       IN /\ job' = [j \in Jobs |->
                       IF j \in mine \cup lost THEN [job[j] EXCEPT !.state = "dropped"]
                       ELSE job[j]]
          /\ channel' = IF last THEN <<>> ELSE channel
          /\ IF panics /\ again
             THEN /\ worker' = Aborted.workers
                  /\ owner' = [owner EXCEPT !.pc = "aborted"]
                  /\ loop' = Aborted.loop
             ELSE /\ worker' = [worker EXCEPT
                       ![w].pc = IF panics \/ again THEN "dead"
                                 ELSE IF ends THEN "exited" ELSE "recv",
                       ![w].msg = NoMessage]
                  /\ UNCHANGED <<owner, loop>>
    /\ UNCHANGED <<kind, interrupt, conn>>
    /\ UNCHANGED <<storeVars, dirVars, wgVars, cliVars>>

\* --- Drop for QueueThreadPool, first loop: one send per worker, each
\* unwrapped.
DropSend ==
    /\ kind = "queue"
    /\ owner.pc \in {"ready", "drop_send"}
    /\ IF ~ReceiverAlive
       THEN /\ owner' = [owner EXCEPT !.pc = "panicked"]
            /\ UNCHANGED channel
       ELSE /\ channel' = Append(channel, Shutdown)
            /\ owner' = [owner EXCEPT
                 !.sent = @ + 1,
                 !.pc = IF owner.sent + 1 = ShutdownsToSend THEN "drop_join" ELSE "drop_send"]
    /\ UNCHANGED <<kind, worker, job>>
    /\ UNCHANGED <<storeVars, dirVars, wgVars, srvVars, cliVars>>

\* --- Drop for QueueThreadPool, second loop: worker.handler.join().unwrap()
\* in vector order. join returns Err for a thread that panicked.
DropJoin ==
    /\ kind = "queue"
    /\ owner.pc = "drop_join"
    /\ LET w == owner.joined + 1
       IN /\ worker[w].pc \in {"exited", "dead"}
          /\ owner' = IF worker[w].pc = "dead"
                      THEN [owner EXCEPT !.pc = "panicked"]
                      ELSE [owner EXCEPT !.joined = w,
                                         !.pc = IF w = NWorkers THEN "dropped" ELSE "drop_join"]
    /\ UNCHANGED <<kind, channel, worker, job>>
    /\ UNCHANGED <<storeVars, dirVars, wgVars, srvVars, cliVars>>

\* --- NaiveThreadPool::spawn: thread::spawn(job), the handle is discarded.
NaiveSpawn(rp, dp) ==
    /\ CanSpawn("naive")
    /\ job' = [job EXCEPT ![NextJob] =
         [NoJob EXCEPT !.state = "running", !.runPanics = rp, !.dropPanics = dp]]
    /\ UNCHANGED <<kind, owner, channel, worker>>
    /\ UNCHANGED <<storeVars, dirVars, wgVars, srvVars, cliVars>>

\* --- RayonThreadPool::spawn: inner.install(job) runs the job inside the
\* pool and gives control back to the caller when the job has returned.
RayonSpawn(rp, dp) ==
    /\ CanSpawn("rayon")
    /\ job' = [job EXCEPT ![NextJob] =
         [NoJob EXCEPT !.state = "running", !.runPanics = rp, !.dropPanics = dp]]
    /\ owner' = [owner EXCEPT !.pc = "install", !.waits = NextJob]
    /\ UNCHANGED <<kind, channel, worker>>
    /\ UNCHANGED <<storeVars, dirVars, wgVars, srvVars, cliVars>>

\* --- A running job comes to its end, by returning or by panicking. A
\* panic inside install is propagated to the thread that called spawn; a
\* panic of a detached thread stays in that thread.
JobEnds(j) ==
    /\ job[j].state = "running"
    /\ job' = [job EXCEPT ![j].runs = @ + 1,
                          ![j].state = IF job[j].runPanics THEN "panicked" ELSE "done"]
    /\ owner' = IF owner.pc = "install" /\ owner.waits = j
                THEN [owner EXCEPT !.waits = 0,
                                   !.pc = IF job[j].runPanics THEN "panicked" ELSE "ready"]
                ELSE owner
    /\ UNCHANGED <<kind, channel, worker>>
    /\ UNCHANGED <<storeVars, dirVars, wgVars, srvVars, cliVars>>

NextPool ==
    \/ \E k \in PoolKinds : PoolNew(k)
    \/ \E rp \in BOOLEAN, dp \in BOOLEAN : QueueSpawn(rp, dp)
    \/ \E w \in Workers : WorkerRecv(w)
    \/ \E w \in Workers : WorkerHandle(w)
    \/ DropSend
    \/ DropJoin
    \/ \E rp \in BOOLEAN, dp \in BOOLEAN : NaiveSpawn(rp, dp)
    \/ \E rp \in BOOLEAN, dp \in BOOLEAN : RayonSpawn(rp, dp)
    \/ \E j \in Jobs : JobEnds(j)

\* A pool, the thread that owns it and the threads it started.
SpecPool == Init /\ [][NextPool]_vars

\* The operating system schedules every thread that can take a step.
FairPool ==
    /\ SpecPool
    /\ \A w \in Workers : WF_vars(WorkerRecv(w)) /\ WF_vars(WorkerHandle(w))
    /\ \A j \in Jobs : WF_vars(JobEnds(j))
    /\ WF_vars(owner.pc = "drop_send" /\ DropSend)
    /\ WF_vars(DropJoin)

\* ---------------------------------------------------------------- WaitGroup

Clones == alive \ {Original}

\* --- WaitGroup::new: counter 0, one handle.
WgNew ==
    /\ alive = {} /\ made = 0 /\ \A w \in Waiters : waiter[w].pc = "idle"
    /\ alive' = {Original}
    /\ wg_counter' = 0
    /\ UNCHANGED <<made, waiter>>
    /\ UNCHANGED <<storeVars, dirVars, poolVars, srvVars, cliVars>>

\* "returned" marks the state right after wait() came back.
Settled ==
    [w \in Waiters |->
        IF waiter[w].pc = "returned" THEN [waiter[w] EXCEPT !.pc = "idle"]
        ELSE waiter[w]]

\* --- Clone for WaitGroup, called on any live handle: Arc::clone, then
\* increment_counter on the new handle.
WgClone(h) ==
    /\ h \in alive
    /\ made < MaxClones
    /\ made' = made + 1
    /\ alive' = alive \cup {made + 1}
    /\ wg_counter' = wg_counter + 1
    /\ waiter' = Settled
    /\ UNCHANGED <<storeVars, dirVars, poolVars, srvVars, cliVars>>

\* WaitGroup::done: decrement unless the counter is 0 already.
Done(count) == IF count > 0 THEN count - 1 ELSE count

\* Thread w is inside the loop of wait(): blocked on the condition variable
\* ("waiting"), or woken up and about to lock and test again.
InWait(w) == waiter[w].pc \in {"waiting", "woken"}

\* A done() that calls notify_one: one of the blocked threads is woken up.
NotifyOne(count, ws) ==
    IF count = 0 /\ \E w \in Waiters : ws[w].pc = "waiting"
    THEN LET w == CHOOSE x \in Waiters : ws[x].pc = "waiting"
         IN [ws EXCEPT ![w].pc = "woken", ![w].by = "notify"]
    ELSE ws

\* WaitGroup::notify_if_empty: notify_all when the count is 0; every thread
\* blocked in Condvar::wait is woken up (by tells the notification from a
\* spurious wake-up).
NotifyIfEmpty(count, ws) ==
    IF count = 0
    THEN [w \in Waiters |->
             IF ws[w].pc = "waiting"
             THEN [ws[w] EXCEPT !.pc = "woken", !.by = "notify"]
             ELSE ws[w]]
    ELSE ws

\* --- Drop for WaitGroup, of any live handle that is not borrowed by a
\* running wait(): self.done().
WgDrop(h) ==
    /\ h \in alive
    /\ \A w \in Waiters : ~(InWait(w) /\ waiter[w].via = h)
    /\ alive' = alive \ {h}
    /\ wg_counter' = Done(wg_counter)
    /\ waiter' = IF wg_counter > 0 THEN NotifyIfEmpty(Done(wg_counter), Settled) ELSE Settled
    /\ UNCHANGED made
    /\ UNCHANGED <<storeVars, dirVars, poolVars, srvVars, cliVars>>

\* --- WaitGroup::wait of thread w through handle h: the counter is locked
\* and tested; with a count above 0 the call blocks on the condition
\* variable, which releases the mutex in the same step.
WgWait(w, h) ==
    /\ h \in alive
    /\ ~InWait(w)
    /\ waiter' = [waiter EXCEPT ![w] =
                     [pc |-> IF wg_counter > 0 THEN "waiting" ELSE "returned",
                      via |-> h, by |-> "none"]]
    /\ UNCHANGED <<wg_counter, alive, made>>
    /\ UNCHANGED <<storeVars, dirVars, poolVars, srvVars, cliVars>>

\* --- Condvar::wait may wake up without a notification.
WgSpurious(w) ==
    /\ waiter[w].pc = "waiting"
    /\ waiter' = [waiter EXCEPT ![w].pc = "woken", ![w].by = "spurious"]
    /\ UNCHANGED <<wg_counter, alive, made>>
    /\ UNCHANGED <<storeVars, dirVars, poolVars, srvVars, cliVars>>

\* --- WaitGroup::wait, woken up with the mutex locked again: the loop
\* `while *count > 0` is left.
WgWaitReturns(w) ==
    /\ waiter[w].pc = "woken"
    /\ wg_counter = 0
    /\ waiter' = [waiter EXCEPT ![w].pc = "returned"]
    /\ UNCHANGED <<wg_counter, alive, made>>
    /\ UNCHANGED <<storeVars, dirVars, poolVars, srvVars, cliVars>>

\* --- ... or the count is above 0 again and the thread blocks once more.
WgWaitAgain(w) ==
    /\ waiter[w].pc = "woken"
    /\ wg_counter > 0
    /\ waiter' = [waiter EXCEPT ![w].pc = "waiting"]
    /\ UNCHANGED <<wg_counter, alive, made>>
    /\ UNCHANGED <<storeVars, dirVars, poolVars, srvVars, cliVars>>

NextWg ==
    \/ WgNew
    \/ \E h \in WgHandles : WgClone(h)
    \/ \E h \in WgHandles : WgDrop(h)
    \/ \E w \in Waiters, h \in WgHandles : WgWait(w, h)
    \/ \E w \in Waiters : WgSpurious(w)
    \/ \E w \in Waiters : WgWaitReturns(w)
    \/ \E w \in Waiters : WgWaitAgain(w)

\* The handles of one WaitGroup spread over threads.
SpecWg == Init /\ [][NextWg]_vars

\* A thread that was woken up gets the mutex and the processor in the end.
FairWg ==
    /\ SpecWg
    /\ \A w \in Waiters : WF_vars(WgWaitReturns(w)) /\ WF_vars(WgWaitAgain(w))

\* ------------------------------------------------------------------- server

\* Outcomes the engine can return for a request (KvsEngine::get/set/remove).
\* get: an io error of the seek, a record that does not decode, a Remove
\* record under the pointer. set: an io error of seek or flush, an error of
\* to_writer. remove: KeyNotFound, an error of to_writer, an io error of
\* flush.
EngineOutcomes(req) ==
    IF req = "Get"
    THEN {EngineOk(v) : v \in Values \cup {NoValue}}
            \cup {EngineErr(e) : e \in {"StorageFileError", "SerdeError", "UnexpectedCommand"}}
    ELSE IF req = "Set"
    THEN {EngineOk(NoValue)} \cup {EngineErr(e) : e \in {"StorageFileError", "SerdeError"}}
    ELSE {EngineOk(NoValue)}
            \cup {EngineErr(e) : e \in {"KeyNotFound", "StorageFileError", "SerdeError"}}

\* send_ok / send_error: the response written for an outcome of the engine.
\* Only get passes the value on; set and rm answer Ok(None).
ResponseFor(req, out) ==
    IF out.status = "Err" THEN ResponseErr(Display(out.error))
    ELSE IF req = "Get" THEN ResponseOk(out.value)
    ELSE ResponseOk(NoValue)

\* The request of connection c reaches the handler and decodes.
Decodes(c) == ~conn[c].broken /\ conn[c].req \in Requests

Pending == {c \in Conns : conn[c].state = "pending"}

Running == loop.pc \in {"accept", "check", "dispatch", "serve"}

\* --- A client connects and sends its bytes; the connection waits in the
\* listener's backlog. Connections are numbered in the order they arrive.
Connect(req, broken) ==
    /\ Running
    /\ \E c \in Conns :
        /\ conn[c].state = "none"
        /\ \A d \in Conns : d < c => conn[d].state # "none"
        /\ conn' = [conn EXCEPT ![c] = [NoConn EXCEPT !.state = "pending",
                                                      !.req = req, !.broken = broken]]
    /\ UNCHANGED <<interrupt, loop>>
    /\ UNCHANGED <<storeVars, dirVars, poolVars, wgVars, cliVars>>

\* --- ctrlc handler: i.store(true).
SigInt ==
    /\ Running
    /\ ~interrupt
    /\ interrupt' = TRUE
    /\ UNCHANGED <<loop, conn>>
    /\ UNCHANGED <<storeVars, dirVars, poolVars, wgVars, cliVars>>

\* --- Server::new and run up to the loop (bind, set_nonblocking), or the
\* same lines of the binary's run. A failing bind returns the error.
ServerStart(sv, bound) ==
    /\ loop.pc = "none"
    /\ owner.pc = "start"
    /\ loop' = [loop EXCEPT !.server = sv,
                            !.pc = IF bound THEN "accept" ELSE "returned_err",
                            !.cause = IF bound THEN "none" ELSE "bind"]
    /\ IF sv = "pool"
       THEN /\ kind' = "queue"
            /\ owner' = [owner EXCEPT !.pc = "ready"]
            /\ worker' = [w \in Workers |-> [worker[w] EXCEPT !.pc = "recv"]]
       ELSE UNCHANGED <<kind, owner, worker>>
    /\ UNCHANGED <<channel, job, interrupt, conn>>
    /\ UNCHANGED <<storeVars, dirVars, wgVars, cliVars>>

\* --- tcp_listener.incoming(): one non-blocking accept. It yields the
\* oldest waiting connection, WouldBlock when none waits, or another error.
Accept ==
    /\ loop.pc = "accept"
    /\ \/ /\ Pending # {}
          /\ LET c == CHOOSE x \in Pending : \A y \in Pending : x <= y
             IN /\ loop' = [loop EXCEPT !.pc = "check", !.got = c]
                /\ conn' = [conn EXCEPT ![c].state = "accepted"]
       \/ /\ Pending = {}
          /\ loop' = [loop EXCEPT !.pc = "check", !.got = WouldBlock]
          /\ UNCHANGED conn
       \/ /\ loop' = [loop EXCEPT !.pc = "check", !.got = AcceptError]
          /\ UNCHANGED conn
    /\ UNCHANGED interrupt
    /\ UNCHANGED <<storeVars, dirVars, poolVars, wgVars, cliVars>>

\* --- Top of the loop body: the flag is read, then the accept's result is
\* matched. On break the stream just accepted, if any, is dropped.
CheckInterrupt ==
    /\ loop.pc = "check"
    /\ IF interrupt
       THEN /\ loop' = [loop EXCEPT !.pc = "returned_ok", !.got = NoStream]
            /\ conn' = IF loop.got \in Conns
                       THEN [conn EXCEPT ![loop.got].state = "refused"]
                       ELSE conn
       ELSE /\ loop' = IF loop.got \in Conns
                       THEN [loop EXCEPT !.pc = IF loop.server = "pool"
                                               THEN "dispatch" ELSE "serve"]
                       ELSE IF loop.got = WouldBlock
                       THEN [loop EXCEPT !.pc = "accept", !.got = NoStream]
                       ELSE [loop EXCEPT !.pc = "returned_err", !.got = NoStream,
                                         !.cause = "accept"]
            /\ UNCHANGED conn
    /\ UNCHANGED interrupt
    /\ UNCHANGED <<storeVars, dirVars, poolVars, wgVars, cliVars>>

\* --- Server::run: storage.clone() and thread_pool.spawn(closure). The
\* closure owns the stream and the clone; destroying it closes the stream
\* and drops the clone, whose Drop compacts and may panic. A send that
\* fails hands the closure back, and it is destroyed while unwrap's panic
\* unwinds run and the frame that owns the Server; the Server's pool is
\* dropped there, the send of Shutdown in its Drop fails too, and that
\* panic inside a destructor aborts the process.
Dispatch(dp) ==
    /\ loop.pc = "dispatch"
    /\ IF ReceiverAlive
       THEN /\ channel' = Append(channel, NewMessage(NextJob))
            /\ job' = [job EXCEPT ![NextJob] =
                 [NoJob EXCEPT !.state = "queued", !.dropPanics = dp]]
            /\ conn' = [conn EXCEPT ![loop.got].job = NextJob]
            /\ loop' = [loop EXCEPT !.pc = "accept", !.got = NoStream]
            /\ UNCHANGED owner
       ELSE /\ loop' = [loop EXCEPT !.pc = "aborted"]
            /\ owner' = [owner EXCEPT !.pc = "aborted"]
            /\ job' = [job EXCEPT ![NextJob] =
                 [NoJob EXCEPT !.state = "dropped", !.dropPanics = dp]]
            /\ UNCHANGED <<channel, conn>>
    /\ UNCHANGED <<kind, worker, interrupt>>
    /\ UNCHANGED <<storeVars, dirVars, wgVars, cliVars>>

\* --- run() of the binary, the rest of the loop body: peer_addr()?,
\* Request::deserialize(..)?, one call of the engine, send_ok / send_error.
\* Every `?` returns from run. The stream is dropped at the end of the body.
Serve(out) ==
    /\ loop.pc = "serve"
    /\ LET c == loop.got
       IN IF Decodes(c)
          THEN /\ out \in EngineOutcomes(conn[c].req)
               /\ conn' = [conn EXCEPT ![c].state = "closed", ![c].ops = @ + 1,
                                       ![c].outcome = out,
                                       ![c].resp = Append(@, ResponseFor(conn[c].req, out))]
               /\ loop' = [loop EXCEPT !.pc = "accept", !.got = NoStream]
          ELSE /\ out = NoOutcome
               /\ conn' = [conn EXCEPT ![c].state = "closed"]
               /\ loop' = [loop EXCEPT !.pc = "returned_err", !.got = NoStream,
                                       !.cause = "connection"]
    /\ UNCHANGED interrupt
    /\ UNCHANGED <<storeVars, dirVars, poolVars, wgVars, cliVars>>

\* What a client may do: send a request, send bytes that are no request, or
\* reset the connection before the server looks at it.
Clients ==
    {[req |-> r, broken |-> FALSE] : r \in Requests \cup {Garbage}}
        \cup {[req |-> "Get", broken |-> TRUE]}

AllOutcomes == UNION {EngineOutcomes(r) : r \in Requests} \cup {NoOutcome}

NextServer ==
    \/ \E sv \in Servers, bound \in BOOLEAN : ServerStart(sv, bound)
    \/ \E cl \in Clients : Connect(cl.req, cl.broken)
    \/ SigInt
    \/ Accept
    \/ CheckInterrupt
    \/ \E dp \in BOOLEAN : Dispatch(dp)
    \/ \E out \in AllOutcomes : Serve(out)
    \/ \E w \in Workers : WorkerRecv(w)
    \/ \E w \in Workers : WorkerHandle(w)

\* A server, its clients and the SIGINT handler.
SpecServer == Init /\ [][NextServer]_vars

\* The thread in run() and the workers keep being scheduled.
FairServer ==
    /\ SpecServer
    /\ WF_vars(Accept) /\ WF_vars(CheckInterrupt)
    /\ WF_vars(\E dp \in BOOLEAN : Dispatch(dp))
    /\ WF_vars(\E out \in AllOutcomes : Serve(out))
    /\ \A w \in Workers : WF_vars(WorkerRecv(w)) /\ WF_vars(WorkerHandle(w))

\* ------------------------------------------------------------------- client

\* Exit status seen by the parent process for process::exit(code).
ExitStatus(code) == code % 256

\* Every response a server can send.
Responses ==
    {ResponseOk(v) : v \in Values \cup {NoValue}} \cup {ResponseErr(Display(e)) : e \in KvErrors}

Exits(code) == [client EXCEPT !.pc = "exited", !.status = ExitStatus(code)]

\* --- main of the client: the command line is parsed and the request sent.
ClientStart(bin, cmd, k) ==
    /\ client.pc = "none"
    /\ client' = [NoClient EXCEPT !.bin = bin, !.cmd = cmd, !.key = k, !.pc = "sent"]
    /\ UNCHANGED <<storeVars, dirVars, poolVars, wgVars, srvVars>>

\* --- request / Client::send: the response is read, or the exchange fails
\* (connect, write, EOF or undecodable answer). kvs-client exits with -4 on
\* a failure; the functions of kmp.rs return the error to their caller.
ClientReceive(resp, ok) ==
    /\ client.pc = "sent"
    /\ client' = IF ok
                 THEN [client EXCEPT !.pc = "received", !.response = resp]
                 ELSE IF client.bin = "kvs-client"
                 THEN Exits(-4)
                 ELSE [client EXCEPT !.pc = "failed"]
    /\ UNCHANGED <<storeVars, dirVars, poolVars, wgVars, srvVars>>

\* get of both programs: prints the value, or "Key not found" on stdout.
GetOutput(r) ==
    IF r.tag = "Ok"
    THEN [client EXCEPT !.pc = "exited", !.status = 0,
                        !.stdout = <<IF r.body = NoValue THEN Display("KeyNotFound") ELSE r.body>>]
    ELSE Exits(-1)

\* set of both programs.
SetOutput(r) ==
    IF r.tag = "Ok" THEN [client EXCEPT !.pc = "exited", !.status = 0] ELSE Exits(-2)

\* rm of kvs-client.rs: eprintln for "Key not found", and then the function
\* returns; main ends normally.
RmOutputClient(r) ==
    IF r.tag = "Ok" THEN [client EXCEPT !.pc = "exited", !.status = 0]
    ELSE IF r.body = Display("KeyNotFound")
    THEN [client EXCEPT !.pc = "exited", !.status = 0,
                        !.stderr = <<Display("KeyNotFound")>>]
    ELSE Exits(-3)

\* rm of kmp.rs: eprintln and exit(1) for "Key not found".
RmOutputKmp(r) ==
    IF r.tag = "Ok" THEN [client EXCEPT !.pc = "exited", !.status = 0]
    ELSE IF r.body = Display("KeyNotFound")
    THEN [Exits(1) EXCEPT !.stderr = <<Display("KeyNotFound")>>]
    ELSE Exits(-3)

\* --- get / set / rm of the client after the response has arrived.
ClientFinish ==
    /\ client.pc = "received"
    /\ client' = IF client.cmd = "get" THEN GetOutput(client.response)
                 ELSE IF client.cmd = "set" THEN SetOutput(client.response)
                 ELSE IF client.bin = "kvs-client" THEN RmOutputClient(client.response)
                 ELSE RmOutputKmp(client.response)
    /\ UNCHANGED <<storeVars, dirVars, poolVars, wgVars, srvVars>>

NextClient ==
    \/ \E bin \in ClientBins, cmd \in {"get", "set", "rm"}, k \in TwoKeys : ClientStart(bin, cmd, k)
    \/ \E resp \in Responses, ok \in BOOLEAN : ClientReceive(resp, ok)
    \/ ClientFinish

\* One run of a client against a server answering anything it can answer.
SpecClient == Init /\ [][NextClient]_vars

\* ------------------------------------------------------------ Log::open

\* File names are sequences of characters, so that file_stem, extension
\* and parse::<u64> are computed as the library computes them.
ACTIVE_FILE_NAME == <<"l", "o", "g", ".", "a", "c", "t", "i", "v", "e">>

PASSIVE_EXT == <<"p", "a", "s", "s", "i", "v", "e">>

Digits == <<"0", "1", "2", "3", "4", "5", "6", "7", "8", "9">>

IsDigit(c) == \E i \in 1..Len(Digits) : Digits[i] = c

DigitOf(c) == (CHOOSE i \in 1..Len(Digits) : Digits[i] = c) - 1

\* str::parse::<u64>: an optional "+" and then one digit at least, digits
\* only. (No name of the model is long enough to overflow a u64.)
RECURSIVE DecimalOf(_, _)
DecimalOf(s, acc) ==
    IF s = <<>> THEN acc ELSE DecimalOf(Tail(s), 10 * acc + DigitOf(Head(s)))

ParseU64(s) ==
    LET body == IF s # <<>> /\ Head(s) = "+" THEN Tail(s) ELSE s
    IN IF body # <<>> /\ \A i \in 1..Len(body) : IsDigit(body[i])
       THEN [ok |-> TRUE, val |-> DecimalOf(body, 0)]
       ELSE [ok |-> FALSE, val |-> 0]

\* Path::file_stem and Path::extension split the name at its last dot; a
\* name without a dot, or with its only dot in front, is all stem.
LastDot(name) == MaxOf({i \in 1..Len(name) : name[i] = "."})

FileStem(name) ==
    IF LastDot(name) <= 1 THEN name ELSE SubSeq(name, 1, LastDot(name) - 1)

HasExtension(name, ext) ==
    LastDot(name) > 1 /\ SubSeq(name, LastDot(name) + 1, Len(name)) = ext

\* utils::get_serial_number: the stem of the path, parsed.
get_serial_number(name) == ParseU64(FileStem(name))

DirFile(name) == [name |-> name, is_file |-> TRUE]

\* What a store directory may hold when it is opened: datafiles of an
\* earlier run and files put there by anything else.
DirNames ==
    { ACTIVE_FILE_NAME,
      <<"1", ".">> \o PASSIVE_EXT,
      <<"1", "2", ".">> \o PASSIVE_EXT,
      <<"x", ".">> \o PASSIVE_EXT,
      <<"7", ".", "t", "x", "t">>,
      <<"3", "0">> }

InitDir == InitProgram /\ dirEntries \in SUBSET {DirFile(n) : n \in DirNames} /\ opened = NotOpened

\* Log::open of engine/kv_store/log.rs: the largest serial number that
\* get_serial_number finds among all entries of the directory (an entry it
\* fails on is skipped), 0 without any; then log.active is opened, created
\* if missing.
LogOpenDir ==
    /\ opened = NotOpened
    /\ LET serials == {get_serial_number(e.name).val :
                         e \in {d \in dirEntries : get_serial_number(d.name).ok}}
       IN opened' = [by |-> "engine", ok |-> TRUE,
                     last_serial_number |-> MaxOf(serials), error |-> "none"]
    /\ dirEntries' = dirEntries \cup {DirFile(ACTIVE_FILE_NAME)}
    /\ UNCHANGED <<storeVars, poolVars, wgVars, srvVars, cliVars>>

\* Log::open of src/log.rs: the regular files with the extension "passive"
\* are collected into the map of passive files under their serial numbers;
\* the first failure of get_serial_number is the result of open. dump
\* takes the last key of that map as the last serial number.
OldLogOpenDir ==
    /\ opened = NotOpened
    /\ LET files == {d \in dirEntries : d.is_file /\ HasExtension(d.name, PASSIVE_EXT)}
       IN IF \E d \in files : ~get_serial_number(d.name).ok
          THEN /\ opened' = [by |-> "old", ok |-> FALSE, last_serial_number |-> 0,
                             error |-> "InvalidDatafileName"]
               /\ dirEntries' = dirEntries
          ELSE /\ opened' = [by |-> "old", ok |-> TRUE,
                             last_serial_number |->
                                 MaxOf({get_serial_number(d.name).val : d \in files}),
                             error |-> "none"]
               /\ dirEntries' = dirEntries \cup {DirFile(ACTIVE_FILE_NAME)}
    /\ UNCHANGED <<storeVars, poolVars, wgVars, srvVars, cliVars>>

NextDir == LogOpenDir \/ OldLogOpenDir

\* One open of a directory holding any of the names above.
SpecDir == InitDir /\ [][NextDir]_vars

\* ------------------------------------------------------------------ claims

\* The value the workload gives a key: that of its last write in the log
\* (NoValue after a remove, or when the key was never written).
Expected(k) ==
    LET S == {i \in 1..Len(hist) : hist[i].key = k}
    IN IF S = {} THEN NoValue
       ELSE IF hist[MaxOf(S)].op = "Set" THEN hist[MaxOf(S)].value ELSE NoValue

LastWriteIsRemove(k) ==
    LET S == {i \in 1..Len(hist) : hist[i].key = k}
    IN S # {} /\ hist[MaxOf(S)].op = "Remove"

Answer(v) == [status |-> "Ok", value |-> v]

\* The single thread of SpecSeq is between two methods of an open store.
SeqIdle == pc[1] = "idle" /\ held[1] > 0

\* No method is in progress on an open store.
Quiescent == Handles > 0 /\ \A t \in Threads : pc[t] = "idle"

\* C1 (get-after-set, single thread): whenever the last write to a key is
\* set(k, v), the store answers get(k) with Some(v); this includes the runs
\* in which a set crosses the threshold, so no set may fail to return.
C1_GetAfterSet ==
    \A k \in Keys :
        Expected(k) # NoValue =>
            /\ pc[1] \notin {"hung", "panicked"}
            /\ SeqIdle => LiveMap[k] = Answer(Expected(k))

\* C2 (remove-absence): once remove(k) has returned Ok and until the next
\* set(k, _), the store answers get(k) with None, whatever compactions and
\* reindexes ran in between.
C2_RemoveAbsence ==
    \A k \in Keys :
        (Quiescent /\ LastWriteIsRemove(k)) => LiveMap[k] = Answer(NoValue)

\* C3 (remove-missing): a remove of a key that is not in the index leaves
\* the log, the index and the counter as they were, goes on to write
\* nothing, and what it returns is KeyNotFound.
C3_RemoveMissing ==
    [][\A t \in Threads :
         (pc[t] = "rm_index" /\ pc'[t] # "rm_index" /\ local[t].key \notin DOMAIN index)
            => /\ active' = active
               /\ passive' = passive
               /\ index' = index
               /\ unused_records' = unused_records
               /\ buffered' = buffered
               /\ pc'[t] # "rm_write"
               /\ pc'[t] = "idle" => result'[t].status = "KeyNotFound"]_vars

\* A remove of a key whose last write was a remove has returned KeyNotFound.
C3_Witness ==
    \E t \in Threads :
        /\ pc[t] = "idle" /\ result[t].op = "remove"
        /\ result[t].status = "KeyNotFound"
        /\ LastWriteIsRemove(result[t].key)

\* C4 (persistence): the live map of a store reopened after every handle
\* was dropped is the live map it had when the closing drop began.
C4_Persistence == flags.justOpened => LiveMap = flags.liveAtClose

\* C5 (compaction preserves semantics): whenever no method is in progress
\* the live map is that of the workload alone, wherever compactions ran.
C5_CompactionPreserves ==
    Quiescent => \A k \in Keys : LiveMap[k] = Answer(Expected(k))

\* C6 (concurrent safety), for get: no get panics or returns
\* UnexpectedCommand, and a get returns only a value that was written to
\* its key.
C6_ConcurrentSafety ==
    \A t \in Threads :
        result[t].op = "get" =>
            /\ result[t].status \notin {"Panic", "UnexpectedCommand"}
            /\ result[t].value # NoValue
                   => \E i \in 1..Len(hist) : hist[i] = SetRec(result[t].key, result[t].value)

\* C7 (read-your-writes): a get(k) of a thread that has set k returns the
\* value of that set or of a later one, or None when a later remove
\* explains it; never an error or a panic.
C7_ReadYourWrites ==
    \A t \in Threads :
        (result[t].op = "get" /\ result[t].key \in Keys /\ mySet[t][result[t].key] > 0)
            => LET k == result[t].key
                   later == mySet[t][k]..Len(hist)
               IN /\ result[t].status = "Ok"
                  /\ \/ \E j \in later : hist[j] = SetRec(k, result[t].value)
                     \/ /\ result[t].value = NoValue
                        /\ \E j \in later : hist[j] = RemoveRec(k)

\* C8 (drop of a handle): the drop of a handle while another handle of the
\* store exists never runs the compaction.
C8_OnlyLastDropCompacts == ~flags.nonLastDropCompacted

\* C9 (compaction trigger, single thread): whenever a set has returned Ok
\* the counter of obsolete records is at most RECORDS_LIMIT, whether
\* overwrites or removes raised it.
C9_CompactionTrigger ==
    (pc[1] = "idle" /\ result[1].op = "set" /\ result[1].status = "Ok")
        => unused_records <= RECORDS_LIMIT

\* Every record of the passive files, in the order of the files.
RECURSIVE PassiveRecords(_, _)
PassiveRecords(pas, todo) ==
    IF todo = {} THEN <<>>
    ELSE LET n == MinOf(todo) IN pas[n] \o PassiveRecords(pas, todo \ {n})

AllPassive == PassiveRecords(passive, DOMAIN passive)

MaxRecordSize ==
    29 + MaxOf({StrLen(k) : k \in Keys}) + MaxOf({StrLen(v) : v \in Values})

\* C10 (compaction shrinks): after a compaction during which nothing was
\* appended, the active file is empty, the passive files hold one Set
\* record for each key of the index and nothing else, and the files take
\* at most (live keys) x (largest record) bytes.
C10_CompactionShrinks ==
    flags.justCompacted =>
        /\ active = <<>>
        /\ \A i \in 1..Len(AllPassive) :
               AllPassive[i].op = "Set" /\ AllPassive[i].key \in DOMAIN index
        /\ \A k \in DOMAIN index :
               Cardinality({i \in 1..Len(AllPassive) : AllPassive[i].key = k}) = 1
        /\ FileSize(active) + FileSize(AllPassive)
               <= Cardinality(DOMAIN index) * MaxRecordSize

\* A worker took job j from the channel and has finished with the message.
HandledByWorker(j) ==
    /\ job[j].by # 0
    /\ worker[job[j].by].msg # NewMessage(j)

RECURSIVE ShutdownsIn(_)
ShutdownsIn(q) ==
    IF q = <<>> THEN 0
    ELSE (IF Head(q).tag = "Shutdown" THEN 1 ELSE 0) + ShutdownsIn(Tail(q))

RECURSIVE ShutdownsTaken(_)
ShutdownsTaken(S) ==
    IF S = {} THEN 0
    ELSE LET w == CHOOSE x \in S : TRUE
         IN worker[w].shutdowns + ShutdownsTaken(S \ {w})

\* C11: in a queue pool, every job that a worker has taken from the channel
\* and finished with has been executed exactly once: no job is dropped
\* unexecuted and none is run twice.
C11_JobExecutedOnce ==
    kind = "queue" => \A j \in Jobs : HandledByWorker(j) => job[j].runs = 1

\* C12: whenever a queue-pool worker has died of a panic, the number of live
\* workers returns to n, unless the pool is dropped (or its owner ends) first.
C12_WorkerReplaced ==
    (owner.pc = "ready" /\ \E w \in Workers : worker[w].pc = "dead")
        ~> (Cardinality(LiveWorkers) = NWorkers \/ owner.pc # "ready")

\* C13: in every pool variant the caller of spawn is never held inside spawn
\* while the job it handed over is running.
C13_SpawnReturns ==
    owner.pc = "install" => job[owner.waits].state # "running"

\* C14: dropping a queue pool puts exactly n Shutdown messages into the
\* channel, no worker consumes more than one, the drop does not end in a
\* panic, and when it has returned every worker has consumed one Shutdown and
\* exited, with no job left in the channel.
C14_PoolShutdown ==
    kind = "queue" =>
        /\ owner.pc \in {"drop_join", "dropped"} =>
               ShutdownsIn(channel) + ShutdownsTaken(Workers) = NWorkers
        /\ \A w \in Workers : worker[w].shutdowns <= 1
        /\ owner.sent > 0 => owner.pc # "panicked"
        /\ owner.pc = "dropped" =>
               /\ \A w \in Workers : worker[w].pc = "exited" /\ worker[w].shutdowns = 1
               /\ \A j \in Jobs : job[j].state # "queued"

\* C15: the counter of a WaitGroup equals the number of live clones at every
\* moment (dropping the original handle does not change it), and wait() has
\* never returned while a clone is alive.
C15_WaitGroupCount ==
    alive # {} =>
        /\ wg_counter = Cardinality(Clones)
        /\ \A w \in Waiters : waiter[w].pc = "returned" => Clones = {}

\* The server is through with connection c: the inline loop has served it,
\* or the closure that owned its stream has been destroyed.
Handled(c) ==
    \/ conn[c].state = "closed"
    \/ conn[c].job # 0 /\ job[conn[c].job].state = "dropped"

\* The response promised for an outcome of the engine.
Promised(req, out) ==
    IF out.status = "Err"
    THEN ResponseErr(IF out.error = "KeyNotFound" THEN "Key not found"
                     ELSE Display(out.error))
    ELSE ResponseOk(IF req = "Get" THEN out.value ELSE NoValue)

\* C16: run() never ends because of a transport or decode error on one
\* connection: such an error ends the handling of that connection only.
C16_ConnectionErrorContained ==
    loop.pc = "returned_err" => loop.cause \in {"bind", "accept"}

\* C17: every accepted connection whose request decodes and that the server
\* is through with had exactly one engine operation performed and exactly one
\* response written, the one promised for the operation's outcome.
C17_OneOperationOneResponse ==
    \A c \in Conns :
        Handled(c) /\ Decodes(c) =>
            /\ conn[c].ops = 1
            /\ conn[c].resp = <<Promised(conn[c].req, conn[c].outcome)>>

\* C18: once the interrupt flag is set, run() returns.
C18_CooperativeShutdown ==
    interrupt ~> (loop.pc \in {"returned_ok", "returned_err"})

\* C19: a client that ran rm and got Err("Key not found") has printed
\* Key not found on stderr and exits with status 1; one that got Ok exits
\* with status 0.
C19_RmExitStatus ==
    client.pc = "exited" /\ client.cmd = "rm" /\ client.response # NoResponse =>
        /\ client.response = ResponseErr("Key not found") =>
               client.status = 1 /\ client.stderr = <<"Key not found">>
        /\ client.response.tag = "Ok" => client.status = 0

\* The threads that are inside compact_log, between its dump and its last
\* reindex.
Compacting == {t \in Threads : pc[t] \in InDrop}

\* C20: at most one compaction is in progress on a store at any time.
C20_SingleCompaction == Cardinality(Compacting) <= 1

\* An Active location is good for a key when a Set record of the key begins
\* at its offset in the present active file.
GoodActive(ptr, k) ==
    \E i \in 1..Len(active) :
        /\ OffsetOf(active, i) = ptr.offset
        /\ active[i] \in {SetRec(k, v) : v \in Values}

\* C21: whenever a get performs its read of the log with an Active location,
\* the record of its key begins at that offset in the present active file;
\* no get resolves a location taken before a rotation against the active
\* file created by the rotation.
C21_RotationRetargets ==
    [][\A t \in Threads :
          pc[t] = "get_read" /\ pc'[t] # "get_read"
             /\ local[t].ptr.kind = "Active"
          => GoodActive(local[t].ptr, local[t].key)]_vars

\* C22: the location that an append has taken is the offset at which its
\* record begins in the active file: while a set holds the log between its
\* write and its index update, the last record of the active file is its own
\* and begins at the position it took; and no two sets are in that section
\* at once.
C22_AppendAtomicity ==
    /\ \A t \in Threads :
          pc[t] = "set_index" =>
              /\ Len(active) > 0
              /\ active[Len(active)] = SetRec(local[t].key, local[t].value)
              /\ OffsetOf(active, Len(active)) = local[t].pos
    /\ Cardinality({t \in Threads : pc[t] = "set_index"}) <= 1

\* The steps in which thread t reads a record from the log for a get or for
\* the survivor scan.
ReadsLog(t) ==
    /\ pc[t] \in {"get_read", "scan_read"}
    /\ pc'[t] # pc[t] \/ local'[t] # local[t]

\* C23: no thread holds the index lock in the step in which it reads a
\* record from the log, in get or in the survivor scan.
C23_NoLockAcrossRead ==
    [][\A t \in Threads : ReadsLog(t) => indexLock # t]_vars

\* C24: whenever no method is in progress on an open store, the replay of
\* the log (passive files in ascending order, then the active file) succeeds
\* and yields the index that is in memory.
C24_IndexEqualsReplay ==
    Quiescent =>
        /\ IndexLog(active, passive).ok
        /\ index = IndexLog(active, passive).idx

\* The steps in which the compaction of thread t fails in Log::compact: the
\* error goes up through compact_log to Drop, which panics on it.
CompactionFails(t) == pc[t] \in {"backup", "rewrite"} /\ pc'[t] = "panicked"

\* C25: a compaction that fails has deleted no passive file, and every key
\* that could be read through the index before the failing step can still
\* be read with the same value after it.
C25_CompactionAborts ==
    [][\A t \in Threads :
          CompactionFails(t) =>
              /\ DOMAIN passive \subseteq DOMAIN passive'
              /\ \A k \in Keys :
                     LiveMap[k].status = "Ok" /\ LiveMap[k].value # NoValue
                         => LiveMap'[k] = LiveMap[k]]_vars

\* What get answers for every key once the directory has been opened again:
\* KvStore::open replays the log into a new index, and there is no store to
\* ask when the replay panics or fails.
ReopenMap(act, pas) ==
    LET st == IndexLog(act, pas)
    IN [k \in Keys |->
          IF ~st.ok THEN [status |-> "Panic", value |-> NoValue]
          ELSE IF st.err THEN [status |-> "SerdeError", value |-> NoValue]
          ELSE GetValue(k, st.idx, act, pas)]

\* The steps in which a set or a remove of thread t returns an error of the
\* storage.
WriteFails(t) ==
    /\ result'[t] # result[t]
    /\ result'[t].op \in {"set", "remove"}
    /\ result'[t].status \in {"StorageFileError", "SerdeError"}

\* C26: a set or a remove that returns StorageFileError or SerdeError leaves
\* the answers of get unchanged, in the running store and in the store
\* opened again on the directory. (A remove that got as far as its write
\* found its key in the index: get did not answer None for it before the
\* call, and does not after it.)
C26_FailedWriteNoEffect ==
    [][\A t \in Threads :
          WriteFails(t) =>
              /\ LiveMap' = LiveMap
              /\ ReopenMap(active', passive') = ReopenMap(active, passive)
              /\ result'[t].op = "remove" =>
                     LiveMap'[result'[t].key] # Answer(NoValue)]_vars

\* A location whose file is gone, or whose offset is at or past the end of
\* its file.
DeadLocation(ptr) ==
    IF ptr.kind = "Passive"
    THEN ptr.serial \notin DOMAIN passive
         \/ ptr.offset >= FileSize(passive[ptr.serial])
    ELSE ptr.offset >= FileSize(active)

\* The locations that a read may be given: those in the index and those
\* that a get in progress has taken from it.
KnownLocations ==
    {index[k] : k \in DOMAIN index}
        \cup {local[t].ptr : t \in {u \in Threads : pc[u] = "get_read"}}

\* C27: Log::get_record answers a location whose file is gone or whose
\* offset is at or past the end of the file with StorageFileError; it does
\* not panic.
C27_DeadLocationIsError ==
    \A ptr \in KnownLocations :
        DeadLocation(ptr) =>
            GetRecord(ptr, active, passive).status = "StorageFileError"

\* The log is compacted: the active file is empty, the passive files hold
\* one record for each key of the index and nothing else, and the index is
\* the replay of the files.
Compacted ==
    /\ active = <<>>
    /\ Len(AllPassive) = Cardinality(DOMAIN index)
    /\ IndexLog(active, passive).ok
    /\ index = IndexLog(active, passive).idx

\* A store is opened: its counter is a new one.
Opens == \E t \in Threads : held[t] = 0 /\ held'[t] = 1

\* C28: the counter of obsolete records of a store goes back to 0 only in a
\* state in which the compaction is complete (passive files rewritten,
\* index rebuilt), and a set whose compaction fails leaves the counter as it
\* was.
C28_ResetAfterCompaction ==
    [][/\ (unused_records > 0 /\ unused_records' = 0 /\ ~Opens) => Compacted
       /\ \A t \in Threads :
             (result'[t] # result[t] /\ result'[t].op = "set"
                  /\ result'[t].status \notin {"Ok", "none"})
             => unused_records' = unused_records]_vars

\* A set has returned Ok after its compaction and its reset: more records
\* were written than the threshold lets stay, and the counter is 0.
C28_Witness ==
    /\ pc[1] = "idle"
    /\ result[1] = Res("set", result[1].key, "Ok", NoValue)
    /\ unused_records = 0
    /\ Len(hist) > RECORDS_LIMIT + 1
    /\ Compacted
    /\ DOMAIN passive # {}

\* The steps in which thread t rotates the log: the dump at the start of
\* compact_log.
Rotates(t) == pc[t] = "idle" /\ pc'[t] = "reindex"

\* C29: a rotation of a non-empty active file takes the next serial number,
\* leaves the records of the active file, in their order and at their
\* offsets, in the passive file of that number, changes no other passive
\* file, and leaves one empty active file that the writer appends to from
\* offset 0.
C29_RotationNonEmpty ==
    [][\A t \in Threads :
          Rotates(t) /\ active # <<>> =>
              /\ last_serial_number' = last_serial_number + 1
              /\ DOMAIN passive' = DOMAIN passive \cup {last_serial_number'}
              /\ passive'[last_serial_number'] = active
              /\ \A i \in 1..Len(active) :
                     OffsetOf(passive'[last_serial_number'], i) = OffsetOf(active, i)
              /\ \A n \in DOMAIN passive \ {last_serial_number'} :
                     passive'[n] = passive[n]
              /\ active' = <<>>
              /\ writer' = 0]_vars

\* A rotation has just moved a non-empty active file: the newest passive
\* file holds records, the active file is empty and the compaction that
\* rotated has not gone further.
C29_Witness ==
    \E t \in Threads :
        /\ pc[t] = "reindex"
        /\ active = <<>>
        /\ last_serial_number \in DOMAIN passive
        /\ passive[last_serial_number] # <<>>
        /\ DOMAIN passive # {last_serial_number}

\* C30: a rotation of an empty active file changes nothing: the serial
\* number, the passive files, the active file with its writer, and the
\* index are what they were.
C30_RotationEmpty ==
    [][\A t \in Threads :
          Rotates(t) /\ active = <<>> =>
              /\ last_serial_number' = last_serial_number
              /\ passive' = passive
              /\ active' = active
              /\ writer' = writer
              /\ index' = index]_vars

\* A dump has just run on an empty active file: the serial number is still
\* 0, which no rotation leaves behind, and there is no passive file.
C30_Witness ==
    \E t \in Threads :
        /\ pc[t] = "reindex"
        /\ active = <<>>
        /\ last_serial_number = 0
        /\ DOMAIN passive = {}

\* The steps in which thread t runs Log::compact on survivors that were all
\* read (every element of the vector is an Ok record).
CompactsRecords(t) ==
    /\ pc[t] = "rewrite"
    /\ pc'[t] # "rewrite"
    /\ "log" \notin poisoned
    /\ \A i \in 1..Len(local[t].commands) : local[t].commands[i].status = "Ok"

\* How often a record occurs in a sequence of records.
Count(recs, x) == Cardinality({i \in 1..Len(recs) : recs[i] = x})

\* The number of files that r records take: ceil(r / RECORDS_IN_COMPACTED).
FilesFor(r) == (r + RECORDS_IN_COMPACTED - 1) \div RECORDS_IN_COMPACTED

\* C31: Log::compact on r records leaves exactly the passive files
\* 1..ceil(r / RECORDS_IN_COMPACTED), none of them empty or longer than
\* RECORDS_IN_COMPACTED, which together hold every input record as often as
\* the input does; no earlier passive file is left, and last_serial_number
\* is the number of files.
C31_LogCompact ==
    [][\A t \in Threads :
          CompactsRecords(t) =>
              LET records == local[t].commands
                  n == FilesFor(Len(records))
                  written == PassiveRecords(passive', DOMAIN passive')
              IN /\ DOMAIN passive' = 1..n
                 /\ \A f \in 1..n :
                        Len(passive'[f]) \in 1..RECORDS_IN_COMPACTED
                 /\ Len(written) = Len(records)
                 /\ \A i \in 1..Len(records) :
                        Count(written, records[i].rec)
                            = Cardinality({j \in 1..Len(records) :
                                             records[j].rec = records[i].rec})
                 /\ last_serial_number' = n]_vars

\* A compaction has just rewritten three survivors: file 1 is full, file 2
\* holds the record that is left, last_serial_number is 2 and the compacting
\* thread is before its last reindex.
C31_Witness ==
    \E t \in Threads :
        /\ pc[t] = "reindex2"
        /\ DOMAIN passive = 1..2
        /\ Len(passive[1]) = RECORDS_IN_COMPACTED
        /\ Len(passive[2]) \in 1..(RECORDS_IN_COMPACTED - 1)
        /\ FilesFor(Len(AllPassive)) = 2
        /\ last_serial_number = 2

\* The steps in which the compaction of thread t ends: the assignment of
\* its last reindex.
CompactionEnds(t) == pc[t] = "assign2" /\ pc'[t] = "idle"

\* C32: when a compaction ends, a record that another thread appended while
\* it ran, and that is the last write of its key, is reflected in the
\* rebuilt index: get answers the key with the value of that record.
C32_ActiveUntouched ==
    [][\A t \in Threads :
          CompactionEnds(t) =>
              \A k \in Keys :
                  LET S == {i \in (local[t].start + 1)..Len(hist) : hist[i].key = k}
                  IN S # {} /\ hist[MaxOf(S)].op = "Set" =>
                         GetValue(k, index', active', passive')
                             = Answer(hist[MaxOf(S)].value)]_vars

\* The positions of the records of key k in a datafile.
RecordsOf(k, recs) == {i \in 1..Len(recs) : recs[i].key = k}

\* The last record of key k in the order passive files by ascending serial
\* number, then the active file: its location and what it is (op "none"
\* when no file has a record of k).
LastRecordOf(k) ==
    LET files == {n \in DOMAIN passive : RecordsOf(k, passive[n]) # {}}
    IN IF RecordsOf(k, active) # {}
       THEN LET i == MaxOf(RecordsOf(k, active))
            IN [op |-> active[i].op, ptr |-> ActivePtr(OffsetOf(active, i))]
       ELSE IF files # {}
       THEN LET n == MaxOf(files)
                i == MaxOf(RecordsOf(k, passive[n]))
            IN [op |-> passive[n][i].op,
                ptr |-> PassivePtr(n, OffsetOf(passive[n], i))]
       ELSE [op |-> "none", ptr |-> ActivePtr(0)]

\* C33: whenever the replay of the log succeeds, the index it builds has,
\* for every key, the location of the key's last record in the order
\* passive files by ascending serial number, then active file, if that
\* record is a Set, and no entry if it is a Remove or there is none.
C33_ReindexOrder ==
    \A st \in {IndexLog(active, passive)} :
        st.ok =>
            \A k \in Keys :
                \A last \in {LastRecordOf(k)} :
                    IF last.op = "Set"
                    THEN k \in DOMAIN st.idx /\ st.idx[k] = last.ptr
                    ELSE k \notin DOMAIN st.idx

\* A reindex has replayed a log in which a key has a Set with one value in
\* a passive file and a Set with another value in a passive file of a higher
\* serial number, and no record in the active file: the new index holds the
\* record of the higher serial number.
C33_Witness ==
    \E t \in Threads, k \in Keys :
        \E n \in DOMAIN passive, m \in DOMAIN passive :
            /\ pc[t] \in {"assign", "assign2"}
            /\ n < m
            /\ \E i \in RecordsOf(k, passive[n]), j \in RecordsOf(k, passive[m]) :
                   /\ passive[n][i].op = "Set" /\ passive[m][j].op = "Set"
                   /\ passive[n][i].value # passive[m][j].value
            /\ RecordsOf(k, active) = {}
            /\ k \in DOMAIN local[t].newIndex
            /\ local[t].newIndex[k] = LastRecordOf(k).ptr
            /\ local[t].newIndex[k].kind = "Passive"
            /\ local[t].newIndex[k].serial = m

\* C34: the replay of the log never fails on a Remove record whose key is
\* not in the index being built: in every state of the files reindex and
\* open get an index, not a panic.
C34_RemoveAbsentIgnored == IndexLog(active, passive).ok

\* The serial numbers of the passive files of a directory: its regular
\* files named <n>.passive.
PassiveSerials(dir) ==
    {get_serial_number(d.name).val :
        d \in {e \in dir : /\ e.is_file
                           /\ HasExtension(e.name, PASSIVE_EXT)
                           /\ get_serial_number(e.name).ok}}

\* C35: Log::open never fails on what the directory holds, and sets
\* last_serial_number to the largest serial number among the <n>.passive
\* files, 0 without any: names with a non-numeric stem and entries that
\* are not passive files do not count.
C35_OpenSerial ==
    opened # NotOpened =>
        /\ opened.ok
        /\ opened.last_serial_number = MaxOf(PassiveSerials(dirEntries))

\* C36: no rotation and no compaction lowers last_serial_number, so that
\* the serial number of a new passive file is above those used before.
C36_SerialMonotonic ==
    [][(\E t \in Threads : Rotates(t) \/ pc[t] = "rewrite")
          => last_serial_number' >= last_serial_number]_vars

\* A step of Log::compact, which deletes the passive files and writes new
\* ones.
CompactionStep == \E t \in AllThreads : pc[t] = "rewrite" /\ pc'[t] # "rewrite"

\* C37: a passive file is immutable: on every step other than a compaction
\* each passive file stays, with the records it had; the file a rotation
\* creates holds what the active file held, and no append, racing with
\* the rotation or later, adds to it.
C37_PassiveImmutable ==
    [][~CompactionStep =>
          /\ \A n \in DOMAIN passive :
                n \in DOMAIN passive' /\ passive'[n] = passive[n]
          /\ \A n \in DOMAIN passive' \ DOMAIN passive : passive'[n] = active]_vars

\* Thread t holds the index lock and waits for the log lock while thread u
\* holds the log lock and waits for the index lock.
CrossedLocks(t, u) ==
    /\ pc[t] = "get_read" /\ indexLock = t
    /\ pc[u] \in {"assign", "assign2"} /\ logLock = u

\* C38: no thread waits for a lock it holds itself, and no two threads
\* hold one of the two locks each while waiting for the other's: every
\* operation that started can still come to its end.
C38_DeadlockFree ==
    /\ \A t \in Threads : pc[t] # "hung"
    /\ \A t \in Threads, u \in Threads : ~CrossedLocks(t, u)

\* C39: the serial number a rotation takes names a path that no passive
\* file has yet: the rename of log.active never replaces a passive file,
\* whatever the other handles are doing.
C39_RotationPathFree ==
    [][\A t \in AllThreads :
          Rotates(t) /\ active # <<>> => last_serial_number + 1 \notin DOMAIN passive]_vars

\* C40: once every clone is dropped, every thread inside wait() comes back
\* (unless a new clone is made first): the drop that empties the group
\* wakes up all of them; a wait() that blocks has found a count above 0;
\* and the counter never is below 0.
C40_WaitGroupLiveness ==
    /\ \A w \in Waiters :
          (InWait(w) /\ Clones = {}) ~> (waiter[w].pc = "returned" \/ Clones # {})
    /\ [][\A w \in Waiters : ~InWait(w) /\ InWait(w)' => wg_counter > 0]_vars
    /\ [](wg_counter >= 0)

\* The drop of the last clone has woken up two threads that were blocked in
\* wait() at the same time.
C40_Witness ==
    /\ \A w \in Waiters : waiter[w].pc = "woken" /\ waiter[w].by = "notify"
    /\ Clones = {} /\ wg_counter = 0 /\ made > 0

====
